---- MODULE Spec2Model ----
(***************************************************************************)
(* Model of the usage-inference engine of gh-api-graveyard                 *)
(* (src/detector/analysis.py): the path matcher match_log_to_spec and the  *)
(* aggregator analyze_endpoint_usage; of the spec loader                   *)
(* parse_openapi_endpoints (src/detector/parsers.py) and of the spec       *)
(* mutator remove_endpoints_from_spec (src/detector/spec_modifier.py); of   *)
(* the log reader stream_logs (src/detector/parsers.py); of the parallel    *)
(* scan scan_multiple_services (src/detector/multi_service.py); of the     *)
(* prune command (src/detector/cli.py, src/detector/git_ops.py).           *)
(*                                                                         *)
(* Strings that the code takes apart (paths) are sequences of one-char     *)
(* strings; strings the code only compares (methods, caller identities)    *)
(* are TLA+ strings.  Python's None is NoneVal for strings and <<>> for    *)
(* the matcher's result (the matcher never returns an empty path).         *)
(* Time is counted in units of 12 hours.                                   *)
(***************************************************************************)
EXTENDS Integers, Sequences, FiniteSets, TLC

VARIABLES
    spec_endpoints,   \* the template list handed to the call
    current_time,     \* the reference time of analyze_endpoint_usage
    endpoint_stats,   \* the stats dict, as the sequence of its items in insertion order
    pc,               \* where the call is: "loop", "done", "raised"; "match", "matched";
                      \* "parse", "parsed"; "modify", "modified"
    results,          \* the list analyze_endpoint_usage returns
    call,             \* the arguments and result of one match_log_to_spec call
    spec_file,        \* the OpenAPI file at spec_path
    output_file,      \* the file at output_path
    endpoints_to_remove,  \* the list handed to remove_endpoints_from_spec
    output_path,      \* its output_path argument
    returned,         \* the tuple it returns
    log_file,         \* the JSONL file handed to stream_logs
    line_num,         \* the number of lines the generator has read
    yielded,          \* the entries it has yielded, in order
    services,         \* config.services of scan_multiple_services
    max_workers,      \* its max_workers argument
    futures,          \* one future per submitted service, with the locals of its scan_service call
    tables,           \* the endpoint_stats dicts of the analyses
    scan_results,     \* the results list of scan_multiple_services
    prune_env,        \* the options of a prune run and what its collaborators will answer
    git,              \* the repository and the spec file in its working tree
    branch_result,    \* the tuple create_branch_and_commit returned, <<>> before the call
    console           \* the progress and error messages of the run, in order

\* the variables of the log reader
stream_vars == <<log_file, line_num, yielded>>

\* the variables of the parallel scan
scan_vars == <<services, max_workers, futures, tables, scan_results>>

\* the variables of the prune command
prune_vars == <<prune_env, git, branch_result, console>>

\* the variables of the commands around the analysis
other_vars == <<stream_vars, scan_vars, prune_vars>>

vars == <<spec_endpoints, current_time, endpoint_stats, pc, results, call,
          spec_file, output_file, endpoints_to_remove, output_path, returned,
          other_vars>>

\* the variables of the spec mutator, which the analysis leaves alone
modifier_vars == <<spec_file, output_file, endpoints_to_remove, output_path, returned>>

\* ------------------------------------------------------------------ bounds

MaxTemplates == 2
MaxPathLen == 3
MaxLogs == 2

\* ------------------------------------------------------------- Python values

NoneVal == "<None>"

\* str.upper() on the method strings of the model
Upper(s) ==
    CASE s = "get" -> "GET"
      [] s = "post" -> "POST"
      [] s = "put" -> "PUT"
      [] s = "patch" -> "PATCH"
      [] s = "delete" -> "DELETE"
      [] s = "options" -> "OPTIONS"
      [] s = "head" -> "HEAD"
      [] s = "trace" -> "TRACE"
      [] OTHER -> s

\* str.lower() on the method strings of the model
Lower(s) ==
    CASE s = "GET" -> "get"
      [] s = "Get" -> "get"
      [] s = "TRACE" -> "trace"
      [] OTHER -> s

IsSpace(c) == c = " "

\* str.strip(): whitespace removed at both ends
RECURSIVE LStrip(_)
LStrip(s) == IF s # <<>> /\ IsSpace(Head(s)) THEN LStrip(Tail(s)) ELSE s

RECURSIVE RStrip(_)
RStrip(s) ==
    IF s # <<>> /\ IsSpace(s[Len(s)]) THEN RStrip(SubSeq(s, 1, Len(s) - 1)) ELSE s

Strip(s) == RStrip(LStrip(s))

\* s.split("/"): the pieces between the slashes, empty ones included
RECURSIVE SplitFrom(_, _, _)
SplitFrom(s, i, cur) ==
    IF i > Len(s) THEN <<cur>>
    ELSE IF s[i] = "/" THEN <<cur>> \o SplitFrom(s, i + 1, <<>>)
    ELSE SplitFrom(s, i + 1, Append(cur, s[i]))

Split(s) == SplitFrom(s, 1, <<>>)

\* mutant: empty segments are kept
Segments_KeepEmpty(path) == Split(path)

\* [s for s in path.split("/") if s]
Segments(path) == SelectSeq(Split(path), LAMBDA seg : seg # <<>>)

\* mutant: a segment that only starts with "{" counts as a parameter
IsParam_StartOnly(spec_seg) == spec_seg # <<>> /\ spec_seg[1] = "{"

\* spec_seg.startswith("{") and spec_seg.endswith("}")
IsParam(spec_seg) ==
    /\ spec_seg # <<>>
    /\ spec_seg[1] = "{"
    /\ spec_seg[Len(spec_seg)] = "}"

\* the loop over zip(log_segments, spec_segments): False at the first literal
\* segment that differs
RECURSIVE SegmentsMatch(_, _)
SegmentsMatch(log_segments, spec_segments) ==
    IF log_segments = <<>> \/ spec_segments = <<>> THEN TRUE
    ELSE IF IsParam(Head(spec_segments))
         THEN SegmentsMatch(Tail(log_segments), Tail(spec_segments))
    ELSE IF Head(log_segments) # Head(spec_segments) THEN FALSE
    ELSE SegmentsMatch(Tail(log_segments), Tail(spec_segments))

\* the body of the candidate loop for one endpoint: does it return spec_path?
EndpointMatches(log_segments, endpoint) ==
    /\ endpoint.path # <<>>
    /\ Len(log_segments) = Len(Segments(endpoint.path))
    /\ SegmentsMatch(log_segments, Segments(endpoint.path))

\* mutant: the method is compared as given, not upper-cased
Candidates_NoUpper(endpoints, method) ==
    IF method # NoneVal /\ method # ""
    THEN SelectSeq(endpoints, LAMBDA ep : ep.method = method)
    ELSE endpoints

\* candidates = spec_endpoints, or those of the upper-cased method if one is given
Candidates(endpoints, method) ==
    IF method # NoneVal /\ method # ""
    THEN SelectSeq(endpoints, LAMBDA ep : ep.method = Upper(method))
    ELSE endpoints

\* mutant: the loop does not stop at the first match, the last match is returned
RECURSIVE FirstMatch_Last(_, _)
FirstMatch_Last(log_segments, candidates) ==
    IF candidates = <<>> THEN <<>>
    ELSE LET later == FirstMatch_Last(log_segments, Tail(candidates))
         IN  IF later # <<>> THEN later
             ELSE IF EndpointMatches(log_segments, Head(candidates))
                  THEN Head(candidates).path
             ELSE <<>>

\* for endpoint in candidates: ... return spec_path; return None
RECURSIVE FirstMatch(_, _)
FirstMatch(log_segments, candidates) ==
    IF candidates = <<>> THEN <<>>
    ELSE IF EndpointMatches(log_segments, Head(candidates))
         THEN Head(candidates).path
    ELSE FirstMatch(log_segments, Tail(candidates))

match_log_to_spec(log_path, endpoints, method) ==
    IF Strip(log_path) = <<>> THEN <<>>
    ELSE FirstMatch(Segments(Strip(log_path)), Candidates(endpoints, method))

\* --------------------------------------------------------- input universes

RECURSIVE SeqsUpTo(_, _)
SeqsUpTo(S, n) ==
    IF n = 0 THEN {<<>>}
    ELSE LET shorter == SeqsUpTo(S, n - 1)
         IN  shorter \cup {Append(s, x) : s \in {t \in shorter : Len(t) = n - 1}, x \in S}

PathChars == {"/", "a", "b", " "}

LogPaths == SeqsUpTo(PathChars, MaxPathLen)

Template(m, p) == [method |-> m, path |-> p]

\* the templates the matcher is tried on: literal, parameter, mixed, a brace
\* segment that is no parameter, unnormalised slashes, the empty path, and a
\* lower-case method
MatchTemplates ==
    { Template("GET", <<"/", "a">>),
      Template("POST", <<"/", "a">>),
      Template("GET", <<"/", "{", "}">>),
      Template("POST", <<"{", "x", "}", "/", "/", "b", "/">>),
      Template("GET", <<"/", "{", "a">>),
      Template("GET", <<>>),
      Template("get", <<"/", "a", "b">>) }

MatchMethods == {NoneVal, "", "get", "POST"}

NoCall == [log_path |-> <<>>, method |-> NoneVal, result |-> <<>>]

\* a file that does not exist, and the return value of a call not yet made
NoFile == [kind |-> "missing", meta |-> "", has_paths |-> FALSE,
           paths_is_dict |-> FALSE, paths |-> <<>>]
NotReturned == <<>>

\* remove_endpoints_from_spec is not called
NoModifierCall ==
    /\ spec_file = NoFile
    /\ output_file = NoFile
    /\ endpoints_to_remove = <<>>
    /\ output_path = NoneVal
    /\ returned = NotReturned

\* no log file is being read
NoLogFile == [exists |-> FALSE, lines |-> <<>>]

NoStream ==
    /\ log_file = NoLogFile
    /\ line_num = 0
    /\ yielded = <<>>

\* no scan is running
NoScan ==
    /\ services = <<>>
    /\ max_workers = 0
    /\ futures = <<>>
    /\ tables = <<>>
    /\ scan_results = <<>>

\* no prune is running
NoPrune ==
    /\ prune_env = <<>>
    /\ git = <<>>
    /\ branch_result = <<>>
    /\ console = <<>>

\* none of the commands around the analysis is running
NoOtherCall == NoStream /\ NoScan /\ NoPrune

\* ------------------------------------------------- the matcher on its own

InitMatch ==
    /\ spec_endpoints \in SeqsUpTo(MatchTemplates, MaxTemplates)
    /\ current_time = [set |-> TRUE, aware |-> TRUE, t |-> 0]
    /\ endpoint_stats = <<>>
    /\ pc = "match"
    /\ results = <<>>
    /\ call = NoCall
    /\ NoModifierCall
    /\ NoOtherCall

Match(log_path, method) ==
    /\ pc = "match"
    /\ call' = [log_path |-> log_path, method |-> method,
                result |-> match_log_to_spec(log_path, spec_endpoints, method)]
    /\ pc' = "matched"
    /\ UNCHANGED <<spec_endpoints, current_time, endpoint_stats, results>>
    /\ UNCHANGED modifier_vars
    /\ UNCHANGED other_vars

NextMatch == \E log_path \in LogPaths, method \in MatchMethods : Match(log_path, method)

SpecMatch == InitMatch /\ [][NextMatch]_vars

\* the matcher on templates whose paths differ in their slashes: the root
\* path, a literal path, the same path with slashes to spare, a parameter
NormalTemplates ==
    { Template("GET", <<"/">>),
      Template("GET", <<"/", "a">>),
      Template("POST", <<"/", "/", "a", "/">>),
      Template("GET", <<"{", "}", "/", "b">>) }

InitNormal ==
    /\ spec_endpoints \in SeqsUpTo(NormalTemplates, MaxTemplates)
    /\ current_time = [set |-> TRUE, aware |-> TRUE, t |-> 0]
    /\ endpoint_stats = <<>>
    /\ pc = "match"
    /\ results = <<>>
    /\ call = NoCall
    /\ NoModifierCall
    /\ NoOtherCall

SpecNormal == InitNormal /\ [][NextMatch]_vars

\* ------------------------------------------------------- the aggregator

\* a dict key that is absent (log.get(key) is then the default)
Missing == "<missing>"

\* log.get(key, default)
Get(value, default) == IF value = Missing THEN default ELSE value

\* bool(x) of an optional string
Truthy(x) == x # Missing /\ x # NoneVal /\ x # ""

\* mutant: the second operand is tried first
Or3_SecondFirst(a, b, c) == IF Truthy(b) THEN b ELSE IF Truthy(a) THEN a ELSE c

\* a or b or c
Or3(a, b, c) == IF Truthy(a) THEN a ELSE IF Truthy(b) THEN b ELSE c

\* A timestamp field is absent, a string that is no ISO date ("bad"), or an ISO
\* date-time of instant t (in 12 h units) written with the zone suffix "Z", with
\* a UTC offset ("+00:00", "+12:00") or with none.
AbsentTs == [kind |-> "absent", t |-> 0, zone |-> ""]
BadTs == [kind |-> "bad", t |-> 0, zone |-> ""]
IsoTs(t, zone) == [kind |-> "iso", t |-> t, zone |-> zone]

\* a datetime is an instant and the offset of its tzinfo ("" when naive)
NoTime == [set |-> FALSE, aware |-> FALSE, t |-> 0, zone |-> ""]
DateTime(aware, t) ==
    [set |-> TRUE, aware |-> aware, t |-> t, zone |-> IF aware THEN "+00:00" ELSE ""]

\* datetime.fromisoformat(timestamp_str.replace("Z", "+00:00")): an aware
\* datetime when the string carries an offset, a naive one when it has none
ParseTimestamp(ts) ==
    LET zone == IF ts.zone = "Z" THEN "+00:00" ELSE ts.zone
    IN  [DateTime(zone # "", ts.t) EXCEPT !.zone = zone]

\* comparing or subtracting an aware and a naive datetime raises TypeError
Mixed(d1, d2) == d1.aware # d2.aware

\* last_seen.isoformat(): the instant, written with the datetime's own offset
IsoFormat(d) == IsoTs(d.t, d.zone)

Key(method, path) == <<method, path>>

NewStats(ep) ==
    [key |-> Key(ep.method, ep.path), method |-> ep.method, path |-> ep.path,
     call_count |-> 0, last_seen |-> NoTime, callers |-> {}]

HasKey(stats, key) == \E i \in 1..Len(stats) : stats[i].key = key

\* mutant: every assignment adds an item, a known key or not
SetItem_Append(stats, value) == Append(stats, value)

\* endpoint_stats[key] = value: a new key is appended, a known key keeps its place
SetItem(stats, value) ==
    IF HasKey(stats, value.key)
    THEN [i \in 1..Len(stats) |-> IF stats[i].key = value.key THEN value ELSE stats[i]]
    ELSE Append(stats, value)

\* for ep in spec_endpoints: endpoint_stats[key] = {...}
RECURSIVE InitStats(_, _)
InitStats(endpoints, stats) ==
    IF endpoints = <<>> THEN stats
    ELSE InitStats(Tail(endpoints), SetItem(stats, NewStats(Head(endpoints))))

\* call_count summed over the stats table: the entries counted so far
RECURSIVE TotalCalls(_)
TotalCalls(stats) ==
    IF stats = <<>> THEN 0 ELSE Head(stats).call_count + TotalCalls(Tail(stats))

LogEntry(method, path, timestamp, caller, user, client_id) ==
    [method |-> method, path |-> path, timestamp |-> timestamp,
     caller |-> caller, user |-> user, client_id |-> client_id]

\* the outcome of the timestamp block for one matched entry: the new last_seen,
\* or a TypeError
TimestampRaises(st, log) ==
    /\ log.timestamp.kind = "iso"
    /\ st.last_seen.set
    /\ Mixed(ParseTimestamp(log.timestamp), st.last_seen)

\* mutant: the timestamp of the latest entry replaces last_seen
NewLastSeen_Latest(st, log) ==
    IF log.timestamp.kind # "iso" THEN st.last_seen ELSE ParseTimestamp(log.timestamp)

NewLastSeen(st, log) ==
    IF log.timestamp.kind # "iso" THEN st.last_seen
    ELSE LET timestamp == ParseTimestamp(log.timestamp)
         IN  IF ~st.last_seen.set \/ timestamp.t > st.last_seen.t
             THEN timestamp
             ELSE st.last_seen

NewCallers(st, log) ==
    LET caller == Or3(log.caller, log.user, log.client_id)
    IN  IF Truthy(caller) THEN st.callers \cup {caller} ELSE st.callers

\* mutant: a matched entry is counted twice
Updated_CountTwo(st, log) ==
    [st EXCEPT !.call_count = st.call_count + 2,
               !.last_seen = NewLastSeen(st, log),
               !.callers = NewCallers(st, log)]

\* the update of the matched endpoint's stats
Updated(st, log) ==
    [st EXCEPT !.call_count = st.call_count + 1,
               !.last_seen = NewLastSeen(st, log),
               !.callers = NewCallers(st, log)]

\* the key one log entry is counted under, <<>> when it is skipped
MatchedKey(endpoints, log) ==
    LET log_method == Upper(Get(log.method, ""))
        matched_path == match_log_to_spec(log.path, endpoints, log_method)
    IN  IF log_method = "" \/ log.path = <<>> \/ matched_path = <<>>
        THEN <<>>
        ELSE Key(log_method, matched_path)

\* None.upper() raises AttributeError
MethodRaises(log) == log.method = NoneVal

\* the body of "for log in logs" for one entry: the stats table after it, or
\* the exception that ends the call
Round(stats, endpoints, log) ==
    IF MethodRaises(log) THEN [raised |-> TRUE, stats |-> <<>>]
    ELSE LET key == MatchedKey(endpoints, log)
         IN  IF key = <<>> \/ ~HasKey(stats, key)
             THEN [raised |-> FALSE, stats |-> stats]
             ELSE LET st == CHOOSE x \in {stats[i] : i \in 1..Len(stats)} : x.key = key
                  IN  IF TimestampRaises(st, log)
                      THEN [raised |-> TRUE, stats |-> <<>>]
                      ELSE [raised |-> FALSE, stats |-> SetItem(stats, Updated(st, log))]

\* the loop pulls one entry, while fewer than limit entries were counted
Pull(log, limit) ==
    /\ pc = "loop"
    /\ TotalCalls(endpoint_stats) < limit
    /\ LET round == Round(endpoint_stats, spec_endpoints, log)
       IN  /\ pc' = IF round.raised THEN "raised" ELSE pc
           /\ endpoint_stats' = round.stats
    /\ UNCHANGED <<spec_endpoints, current_time, results, call>>
    /\ UNCHANGED modifier_vars
    /\ UNCHANGED other_vars

ProcessLog(log) == Pull(log, MaxLogs)

\* --------------------------------------------------------------- scoring

\* (current_time - last_seen).days: whole days, rounded down
DaysAgo(now, last_seen) == (now.t - last_seen.t) \div 2

Adj(delta, reason) == [delta |-> delta, reasons |-> <<reason>>]
NoAdj == [delta |-> 0, reasons |-> <<>>]

\* mutant: the first band takes every called endpoint
FrequencyAdj_AnyCount(call_count) == Adj(30, <<"Called only once">>)

\* mutant: five calls fall in the next band
FrequencyAdj_LowEdge(call_count) ==
    IF call_count = 1 THEN Adj(30, <<"Called only once">>)
    ELSE IF call_count < 5 THEN Adj(20, <<"Very low call count", call_count>>)
    ELSE IF call_count <= 20 THEN Adj(10, <<"Low call count", call_count>>)
    ELSE IF call_count <= 100 THEN Adj(-10, <<"Moderate call count", call_count>>)
    ELSE Adj(-30, <<"High call count", call_count>>)

\* mutant: the band of 21 to 100 calls adds more than the band before it
FrequencyAdj_ModerateUp(call_count) ==
    IF call_count = 1 THEN Adj(30, <<"Called only once">>)
    ELSE IF call_count <= 5 THEN Adj(20, <<"Very low call count", call_count>>)
    ELSE IF call_count <= 20 THEN Adj(10, <<"Low call count", call_count>>)
    ELSE IF call_count <= 100 THEN Adj(20, <<"Moderate call count", call_count>>)
    ELSE Adj(-30, <<"High call count", call_count>>)

\* "Adjust for call frequency"
FrequencyAdj(call_count) ==
    IF call_count = 1 THEN Adj(30, <<"Called only once">>)
    ELSE IF call_count <= 5 THEN Adj(20, <<"Very low call count", call_count>>)
    ELSE IF call_count <= 20 THEN Adj(10, <<"Low call count", call_count>>)
    ELSE IF call_count <= 100 THEN Adj(-10, <<"Moderate call count", call_count>>)
    ELSE Adj(-30, <<"High call count", call_count>>)

\* mutant: the 365th day falls in the last band
RecencyAdj_YearEdge(now, last_seen) ==
    IF ~last_seen.set THEN NoAdj
    ELSE LET days_ago == DaysAgo(now, last_seen)
         IN  IF days_ago >= 365 THEN Adj(20, <<"Last seen (>1 year)", days_ago>>)
             ELSE IF days_ago > 180 THEN Adj(15, <<"Last seen (>6 months)", days_ago>>)
             ELSE IF days_ago > 90 THEN Adj(10, <<"Last seen (>3 months)", days_ago>>)
             ELSE IF days_ago > 30 THEN Adj(5, <<"Last seen (>1 month)", days_ago>>)
             ELSE Adj(-10, <<"Recently active", days_ago>>)

\* "Adjust for age (days since last seen)"
RecencyAdj(now, last_seen) ==
    IF ~last_seen.set THEN NoAdj
    ELSE LET days_ago == DaysAgo(now, last_seen)
         IN  IF days_ago > 365 THEN Adj(20, <<"Last seen (>1 year)", days_ago>>)
             ELSE IF days_ago > 180 THEN Adj(15, <<"Last seen (>6 months)", days_ago>>)
             ELSE IF days_ago > 90 THEN Adj(10, <<"Last seen (>3 months)", days_ago>>)
             ELSE IF days_ago > 30 THEN Adj(5, <<"Last seen (>1 month)", days_ago>>)
             ELSE Adj(-10, <<"Recently active", days_ago>>)

\* mutant: ten callers are many
DiversityAdj_TenIsMany(unique_callers) ==
    IF unique_callers = 1 THEN Adj(10, <<"Single caller only">>)
    ELSE IF unique_callers <= 3 THEN Adj(5, <<"Few unique callers", unique_callers>>)
    ELSE IF unique_callers >= 10 THEN Adj(-10, <<"Many unique callers", unique_callers>>)
    ELSE NoAdj

\* "Adjust for caller diversity"
DiversityAdj(unique_callers) ==
    IF unique_callers = 1 THEN Adj(10, <<"Single caller only">>)
    ELSE IF unique_callers <= 3 THEN Adj(5, <<"Few unique callers", unique_callers>>)
    ELSE IF unique_callers > 10 THEN Adj(-10, <<"Many unique callers", unique_callers>>)
    ELSE NoAdj

Min2(a, b) == IF a < b THEN a ELSE b
Max2(a, b) == IF a > b THEN a ELSE b

\* mutant: no upper clamp
Clamp_NoUpper(confidence) == Max2(0, confidence)

\* max(0, min(100, confidence))
Clamp(confidence) == Max2(0, Min2(100, confidence))

\* mutant: no branch for call_count 0
Confidence_NoZeroBranch(st, now) ==
    LET f == FrequencyAdj(st.call_count)
        r == RecencyAdj(now, st.last_seen)
        d == DiversityAdj(Cardinality(st.callers))
    IN  [score |-> 50 + f.delta + r.delta + d.delta,
         reasons |-> f.reasons \o r.reasons \o d.reasons]

\* mutant: the diversity reason is appended before the recency reason
Confidence_DiversityFirst(st, now) ==
    IF st.call_count = 0
    THEN [score |-> 100, reasons |-> << <<"Never called in logs">> >>]
    ELSE LET f == FrequencyAdj(st.call_count)
             r == RecencyAdj(now, st.last_seen)
             d == DiversityAdj(Cardinality(st.callers))
         IN  [score |-> 50 + f.delta + r.delta + d.delta,
              reasons |-> f.reasons \o d.reasons \o r.reasons]

\* the score and the reasons of one endpoint, before the clamp
Confidence(st, now) ==
    IF st.call_count = 0
    THEN [score |-> 100, reasons |-> << <<"Never called in logs">> >>]
    ELSE LET f == FrequencyAdj(st.call_count)
             r == RecencyAdj(now, st.last_seen)
             d == DiversityAdj(Cardinality(st.callers))
         IN  [score |-> 50 + f.delta + r.delta + d.delta,
              reasons |-> f.reasons \o r.reasons \o d.reasons]

\* caller identities in lexicographic order
CallerNames ==
    <<"app01", "app02", "app03", "app04", "app05", "app06",
      "app07", "app08", "app09", "app10", "app11", "app12", "app13">>

LexRank(name) == CHOOSE i \in 1..Len(CallerNames) : CallerNames[i] = name

\* sorted(list(callers))
RECURSIVE Sorted(_)
Sorted(callers) ==
    IF callers = {} THEN <<>>
    ELSE LET first == CHOOSE c \in callers : \A o \in callers : LexRank(c) <= LexRank(o)
         IN  <<first>> \o Sorted(callers \ {first})

\* mutant: the callers list is not cut to ten
Result_NoCap(st, now) ==
    LET c == Confidence(st, now)
    IN  [method |-> st.method,
         path |-> st.path,
         call_count |-> st.call_count,
         last_seen |-> IF st.last_seen.set THEN IsoFormat(st.last_seen) ELSE AbsentTs,
         unique_callers |-> Cardinality(st.callers),
         callers |-> Sorted(st.callers),
         confidence_score |-> Clamp(c.score),
         confidence_reasons |-> c.reasons]

\* the dict appended to results for one endpoint
Result(st, now) ==
    LET c == Confidence(st, now)
    IN  [method |-> st.method,
         path |-> st.path,
         call_count |-> st.call_count,
         last_seen |-> IF st.last_seen.set THEN IsoFormat(st.last_seen) ELSE AbsentTs,
         unique_callers |-> Cardinality(st.callers),
         callers |-> SubSeq(Sorted(st.callers), 1, Min2(10, Cardinality(st.callers))),
         confidence_score |-> Clamp(c.score),
         confidence_reasons |-> c.reasons]

\* mutant: an unstable sort, equal scores end up in reverse order
RECURSIVE InsertDesc_Unstable(_, _)
InsertDesc_Unstable(sorted, x) ==
    IF sorted = <<>> THEN <<x>>
    ELSE IF Head(sorted).confidence_score > x.confidence_score
         THEN <<Head(sorted)>> \o InsertDesc_Unstable(Tail(sorted), x)
    ELSE <<x>> \o sorted

\* results.sort(key=confidence_score, reverse=True): stable, highest first
RECURSIVE InsertDesc(_, _)
InsertDesc(sorted, x) ==
    IF sorted = <<>> THEN <<x>>
    ELSE IF Head(sorted).confidence_score >= x.confidence_score
         THEN <<Head(sorted)>> \o InsertDesc(Tail(sorted), x)
    ELSE <<x>> \o sorted

RECURSIVE SortDesc(_, _)
SortDesc(rs, sorted) ==
    IF rs = <<>> THEN sorted ELSE SortDesc(Tail(rs), InsertDesc(sorted, Head(rs)))

\* current_time - last_seen raises TypeError for an endpoint that was called
ScoringRaises(stats, now) ==
    \E i \in 1..Len(stats) :
        /\ stats[i].call_count > 0
        /\ stats[i].last_seen.set
        /\ Mixed(now, stats[i].last_seen)

\* "Calculate confidence scores" and the final sort
Results(stats, now) ==
    SortDesc([i \in 1..Len(stats) |-> Result(stats[i], now)], <<>>)

\* the log sequence is exhausted: score every endpoint, sort, return
Finish ==
    /\ pc = "loop"
    /\ IF ScoringRaises(endpoint_stats, current_time)
       THEN pc' = "raised" /\ results' = <<>> /\ endpoint_stats' = <<>>
       ELSE /\ pc' = "done"
            /\ results' = Results(endpoint_stats, current_time)
            /\ UNCHANGED endpoint_stats
    /\ UNCHANGED <<spec_endpoints, current_time, call>>
    /\ UNCHANGED modifier_vars
    /\ UNCHANGED other_vars

\* ---------------------------------------------- the aggregator's inputs

\* the reference time, and log timestamps more than a year and one day before it
Now == 800
OldT == Now - 2 * 366
RecentT == Now - 2

AnalyzeTemplates ==
    { Template("GET", <<"/", "a">>),
      Template("GET", <<"/", "{", "}">>),
      Template("POST", <<"/", "a">>) }

\* the caller, user and client_id fields of an entry
CallerFields ==
    { <<Missing, Missing, Missing>>,
      <<"app01", "app02", Missing>> }

\* entries with every field in place, and entries with a method or a path that
\* is missing, empty or null, a path no template has, an unparsable timestamp,
\* a later timestamp with an offset, a caller named by user or client_id alone
LogEntries ==
    { LogEntry(m, p, ts, c[1], c[2], c[3]) :
        m \in {"get", "POST"}, p \in {<<"/", "a">>, <<" ", "/", "b">>},
        ts \in {AbsentTs, IsoTs(OldT, "Z"), IsoTs(RecentT, "")}, c \in CallerFields }
    \cup
    { LogEntry(Missing, <<"/", "a">>, IsoTs(RecentT, "Z"), "app01", Missing, Missing),
      LogEntry("", <<"/", "a">>, IsoTs(RecentT, "Z"), "app01", Missing, Missing),
      LogEntry(NoneVal, <<"/", "a">>, AbsentTs, Missing, Missing, Missing),
      LogEntry("GET", <<>>, IsoTs(RecentT, "Z"), "app01", Missing, Missing),
      LogEntry("GET", <<" ">>, IsoTs(RecentT, "Z"), "app01", Missing, Missing),
      LogEntry("GET", <<"/", "a", "/", "b">>, IsoTs(RecentT, "Z"), "app01", Missing, Missing),
      LogEntry("GET", <<"/", "a">>, BadTs, Missing, "app02", Missing),
      LogEntry("GET", <<"/", "a">>, AbsentTs, "", "app02", "app03"),
      LogEntry("GET", <<"/", "a">>, IsoTs(RecentT, "+00:00"), NoneVal, Missing, "app03") }

Init ==
    /\ spec_endpoints \in SeqsUpTo(AnalyzeTemplates, MaxTemplates)
    /\ current_time = DateTime(TRUE, Now)
    /\ endpoint_stats = InitStats(spec_endpoints, <<>>)
    /\ pc = "loop"
    /\ results = <<>>
    /\ call = NoCall
    /\ NoModifierCall
    /\ NoOtherCall

Next == (\E log \in LogEntries : ProcessLog(log)) \/ Finish

Spec == Init /\ [][Next]_vars

\* the aggregator on entries that differ in one field at a time: a matched
\* entry with no timestamp and no caller; with an old and with a recent
\* zone-aware timestamp; with the recent instant written at another offset;
\* with a naive one; with a timestamp that does not
\* parse; with the caller in the first, the second or the third field; for
\* another template; with a method or a path that is missing, empty or null;
\* with a path no template has
EntryLogs ==
    { LogEntry("get", <<"/", "a">>, AbsentTs, Missing, Missing, Missing),
      LogEntry("GET", <<"/", "a">>, IsoTs(OldT, "Z"), "app01", "app02", Missing),
      LogEntry("GET", <<"/", "a">>, IsoTs(RecentT, "+00:00"), NoneVal, Missing, "app03"),
      LogEntry("GET", <<"/", "a">>, IsoTs(RecentT, "+12:00"), Missing, Missing, Missing),
      LogEntry("GET", <<"/", "a">>, IsoTs(RecentT, ""), Missing, Missing, Missing),
      LogEntry("GET", <<"/", "a">>, BadTs, Missing, "app02", Missing),
      LogEntry("GET", <<"/", "a">>, AbsentTs, "", "app02", "app03"),
      LogEntry("POST", <<" ", "/", "a">>, IsoTs(OldT, "Z"), "app01", Missing, Missing),
      LogEntry(Missing, <<"/", "a">>, IsoTs(RecentT, "Z"), "app01", Missing, Missing),
      LogEntry("", <<"/", "a">>, IsoTs(RecentT, "Z"), "app01", Missing, Missing),
      LogEntry(NoneVal, <<"/", "a">>, AbsentTs, Missing, Missing, Missing),
      LogEntry("GET", <<>>, IsoTs(RecentT, "Z"), "app01", Missing, Missing),
      LogEntry("GET", <<" ">>, IsoTs(RecentT, "Z"), "app01", Missing, Missing),
      LogEntry("GET", <<"/", "a", "/", "b">>, IsoTs(RecentT, "Z"), "app01", Missing, Missing) }

NextEntry == (\E log \in EntryLogs : ProcessLog(log)) \/ Finish

SpecEntry == Init /\ [][NextEntry]_vars

\* ------------------------------------------------- scoring on its own

MaxCalls == 101
MaxCallers == 11

\* the ages, in days, at which the recency band changes, and the days next to them
BandDays == {0, 30, 31, 90, 91, 180, 181, 365, 366}

\* what last_seen can hold after the log loop: nothing, an instant at or within
\* a day of a band edge, an instant after the reference time, a naive datetime
ScoreLastSeen ==
    {NoTime}
    \cup {DateTime(TRUE, Now - 2 * d - h) : d \in BandDays, h \in {0, 1}}
    \cup {DateTime(TRUE, Now + 1), DateTime(TRUE, Now + 3), DateTime(FALSE, Now - 2 * 366)}

\* The stats table as the log loop can leave it for one template: call_count
\* matched entries, of which any number carried a timestamp and which named k
\* distinct callers.
InitScore ==
    /\ spec_endpoints = <<Template("GET", <<"/", "a">>)>>
    /\ current_time \in {DateTime(TRUE, Now), DateTime(FALSE, Now)}
    /\ \E c \in 0..MaxCalls, ls \in ScoreLastSeen :
          \E k \in 0..Min2(c, MaxCallers) :
             /\ c = 0 => ls = NoTime
             /\ endpoint_stats =
                    << [NewStats(spec_endpoints[1]) EXCEPT
                           !.call_count = c,
                           !.last_seen = ls,
                           !.callers = {CallerNames[i] : i \in 1..k}] >>
    /\ pc = "loop"
    /\ results = <<>>
    /\ call = NoCall
    /\ NoModifierCall
    /\ NoOtherCall

\* entries the loop may still pull from such a table: a matched entry with no
\* timestamp and no caller, a matched entry with both, an entry no template has
ScoreEntries ==
    { LogEntry("GET", <<"/", "a">>, AbsentTs, Missing, Missing, Missing),
      LogEntry("get", <<"/", "a">>, IsoTs(Now - 2 * 10, "Z"), "app01", Missing, Missing),
      LogEntry("GET", <<"/", "b">>, AbsentTs, "app01", Missing, Missing) }

ProcessLogScore(log) == Pull(log, MaxCalls)

NextScore == (\E log \in ScoreEntries : ProcessLogScore(log)) \/ Finish

SpecScore == InitScore /\ [][NextScore]_vars

\* ------------------------------------------------- the OpenAPI document

\* A file is missing, is no YAML ("malformed"), holds null or an empty
\* mapping ("null"), holds a sequence ("list"), or holds a mapping ("dict")
\* with top-level metadata and, when has_paths, a 'paths' value that is a
\* mapping (the sequence of its items, in document order) or null.
Document(kind, has_paths, paths_is_dict, paths) ==
    [kind |-> kind, meta |-> IF kind = "dict" THEN "openapi, info" ELSE "",
     has_paths |-> has_paths, paths_is_dict |-> paths_is_dict, paths |-> paths]

\* a path item: a mapping with these keys, or null
PathItem(keys) == [is_dict |-> TRUE, keys |-> keys]
NullItem == [is_dict |-> FALSE, keys |-> {}]

PathEntry(path, item) == [path |-> path, item |-> item]

\* "HTTP methods to look for"
http_methods == <<"get", "post", "put", "patch", "delete", "options", "head", "trace">>

\* mutant: the last method of the list is not looked for
ItemEndpoints_NoTrace(path, path_item) ==
    IF ~path_item.is_dict THEN <<>>
    ELSE LET found == SelectSeq(SubSeq(http_methods, 1, Len(http_methods) - 1),
                                LAMBDA method : method \in path_item.keys)
         IN  [i \in 1..Len(found) |-> Template(Upper(found[i]), path)]

\* the entries one path item adds to the list
ItemEndpoints(path, path_item) ==
    IF ~path_item.is_dict THEN <<>>
    ELSE LET found == SelectSeq(http_methods, LAMBDA method : method \in path_item.keys)
         IN  [i \in 1..Len(found) |-> Template(Upper(found[i]), path)]

\* "Iterate through all paths"
RECURSIVE PathsEndpoints(_)
PathsEndpoints(paths) ==
    IF paths = <<>> THEN <<>>
    ELSE ItemEndpoints(Head(paths).path, Head(paths).item) \o PathsEndpoints(Tail(paths))

\* the resolving parser and the plain YAML load it falls back on give the
\* same mapping; a file neither can load gives the empty list
parse_openapi_endpoints(file) ==
    IF file.kind \in {"missing", "malformed"} THEN <<>>
    ELSE IF file.kind # "dict" THEN <<>>
    ELSE IF ~file.has_paths THEN <<>>
    ELSE IF ~file.paths_is_dict THEN <<>>
    ELSE PathsEndpoints(file.paths)

\* keys of a path item: a method, the same method in upper case, the last
\* method of the list, and a key that is no method
ItemKeys == {"get", "GET", "trace", "parameters"}

PathItems == {PathItem(keys) : keys \in SUBSET ItemKeys} \cup {NullItem}

DocPaths == {<<"/", "a">>, <<"/", "{", "}">>}

\* the items of a 'paths' mapping: every path at most once
PathsMappings ==
    {ps \in SeqsUpTo({PathEntry(p, item) : p \in DocPaths, item \in PathItems},
                     Cardinality(DocPaths)) :
        \A i, j \in 1..Len(ps) : i # j => ps[i].path # ps[j].path}

Documents ==
    { NoFile,
      Document("malformed", FALSE, FALSE, <<>>),
      Document("null", FALSE, FALSE, <<>>),
      Document("list", FALSE, FALSE, <<>>),
      Document("dict", FALSE, FALSE, <<>>),
      Document("dict", TRUE, FALSE, <<>>) }
    \cup {Document("dict", TRUE, TRUE, ps) : ps \in PathsMappings}

\* --------------------------------------------- the spec loader on its own

InitParse ==
    /\ spec_endpoints = <<>>
    /\ current_time = [set |-> TRUE, aware |-> TRUE, t |-> 0]
    /\ endpoint_stats = <<>>
    /\ pc = "parse"
    /\ results = <<>>
    /\ call = NoCall
    /\ spec_file \in Documents
    /\ output_file = NoFile
    /\ endpoints_to_remove = <<>>
    /\ output_path = NoneVal
    /\ returned = NotReturned
    /\ NoOtherCall

Parse ==
    /\ pc = "parse"
    /\ spec_endpoints' = parse_openapi_endpoints(spec_file)
    /\ pc' = "parsed"
    /\ UNCHANGED <<current_time, endpoint_stats, results, call>>
    /\ UNCHANGED modifier_vars
    /\ UNCHANGED other_vars

NextParse == Parse

SpecParse == InitParse /\ [][NextParse]_vars

\* ------------------------------------------------------ the spec mutator

MaxRemove == 2

Removal(method, path) == [method |-> method, path |-> path]

\* "Group endpoints by path": the paths of the list
GroupedPaths(endpoints) == {endpoints[i].path : i \in 1..Len(endpoints)}

\* endpoints_by_path[path]: the methods listed for the path, in lower case, in
\* the order of the list, a method listed twice kept twice
MethodsFor(endpoints, path) ==
    LET listed == SelectSeq(endpoints, LAMBDA endpoint : endpoint.path = path)
    IN  [i \in 1..Len(listed) |-> Lower(listed[i].method)]

\* mutant: every listed method counts as removed
RemoveMethods_CountAll(keys, methods) ==
    [keys |-> keys \ {methods[i] : i \in 1..Len(methods)}, removed |-> Len(methods)]

\* "Remove specific methods": the keys left and the number of keys deleted
RECURSIVE RemoveMethods(_, _)
RemoveMethods(keys, methods) ==
    IF methods = <<>> THEN [keys |-> keys, removed |-> 0]
    ELSE IF Head(methods) \in keys
         THEN LET rest == RemoveMethods(keys \ {Head(methods)}, Tail(methods))
              IN  [keys |-> rest.keys, removed |-> rest.removed + 1]
    ELSE RemoveMethods(keys, Tail(methods))

remaining_methods(keys) == SelectSeq(http_methods, LAMBDA m : m \in keys)

\* mutant: a path is dropped only when no key at all is left on it
PathDeleted_NoKeys(entry, endpoints) ==
    /\ entry.path \in GroupedPaths(endpoints)
    /\ RemoveMethods(entry.item.keys, MethodsFor(endpoints, entry.path)).keys = {}

\* "If no methods left, mark path for deletion"
PathDeleted(entry, endpoints) ==
    /\ entry.path \in GroupedPaths(endpoints)
    /\ remaining_methods(RemoveMethods(entry.item.keys,
                                       MethodsFor(endpoints, entry.path)).keys) = <<>>

\* the item of a path after the removal
PathKept(entry, endpoints) ==
    IF entry.path \in GroupedPaths(endpoints)
    THEN PathEntry(entry.path,
                   PathItem(RemoveMethods(entry.item.keys,
                                          MethodsFor(endpoints, entry.path)).keys))
    ELSE entry

\* spec['paths'] after "Remove endpoints" and "Delete empty paths"
RECURSIVE NewPaths(_, _)
NewPaths(paths, endpoints) ==
    IF paths = <<>> THEN <<>>
    ELSE (IF PathDeleted(Head(paths), endpoints) THEN <<>>
          ELSE <<PathKept(Head(paths), endpoints)>>)
         \o NewPaths(Tail(paths), endpoints)

\* removed_count
RECURSIVE RemovedCount(_, _)
RemovedCount(paths, endpoints) ==
    IF paths = <<>> THEN 0
    ELSE (IF Head(paths).path \in GroupedPaths(endpoints)
          THEN RemoveMethods(Head(paths).item.keys,
                             MethodsFor(endpoints, Head(paths).path)).removed
          ELSE 0)
         + RemovedCount(Tail(paths), endpoints)

\* an exception inside the try block, after the document was found to have
\* 'paths': None.lower(), `path in None`, `method in None`
ModifyRaises(file, endpoints) ==
    \/ \E i \in 1..Len(endpoints) : endpoints[i].method = NoneVal
    \/ endpoints # <<>> /\ ~file.paths_is_dict
    \/ \E i \in 1..Len(file.paths) :
          /\ file.paths[i].path \in GroupedPaths(endpoints)
          /\ ~file.paths[i].item.is_dict

Failed == <<FALSE, <<"Failed to modify spec">>, 0>>
Invalid == <<FALSE, <<"Invalid OpenAPI spec: no paths found">>, 0>>
Removed(removed_count) == <<TRUE, <<"Removed endpoint(s) from spec", removed_count>>, removed_count>>

\* the returned tuple, and the document written when there is one
remove_endpoints_from_spec(file, endpoints) ==
    IF file.kind \in {"missing", "malformed"}
    THEN [returned |-> Failed, document |-> file]
    ELSE IF file.kind # "dict" \/ ~file.has_paths
    THEN [returned |-> Invalid, document |-> file]
    ELSE IF ModifyRaises(file, endpoints)
    THEN [returned |-> Failed, document |-> file]
    ELSE [returned |-> Removed(RemovedCount(file.paths, endpoints)),
          document |-> [file EXCEPT !.paths = NewPaths(file.paths, endpoints)]]

RemoveMethodNames == {"GET", "get", "TRACE"}

\* what a list may name: a method in either case on a path, and an entry
\* whose method is null
Removals ==
    {Removal(m, p) : m \in RemoveMethodNames, p \in DocPaths}
    \cup {Removal(NoneVal, <<"/", "a">>)}

OutputPaths == {NoneVal, "out.yaml"}

InitModify ==
    /\ spec_endpoints = <<>>
    /\ current_time = [set |-> TRUE, aware |-> TRUE, t |-> 0]
    /\ endpoint_stats = <<>>
    /\ pc = "modify"
    /\ results = <<>>
    /\ call = NoCall
    /\ spec_file \in Documents
    /\ output_file = NoFile
    /\ endpoints_to_remove \in SeqsUpTo(Removals, MaxRemove)
    /\ output_path \in OutputPaths
    /\ returned = NotReturned
    /\ NoOtherCall

\* one call of remove_endpoints_from_spec; on success the document is
\* written to output_path, or to spec_path when output_path is None
Modify ==
    /\ pc = "modify"
    /\ LET out == remove_endpoints_from_spec(spec_file, endpoints_to_remove)
       IN  /\ returned' = out.returned
           /\ IF ~out.returned[1]
              THEN UNCHANGED <<spec_file, output_file>>
              ELSE IF output_path = NoneVal
              THEN spec_file' = out.document /\ UNCHANGED output_file
              ELSE output_file' = out.document /\ UNCHANGED spec_file
    /\ pc' = "modified"
    /\ UNCHANGED <<spec_endpoints, current_time, endpoint_stats, results, call,
                   endpoints_to_remove, output_path>>
    /\ UNCHANGED other_vars

NextModify == Modify

SpecModify == InitModify /\ [][NextModify]_vars

\* --------------------------------------------------------- the log reader

MaxLines == 3

\* A line of the file, by what the loop body does with it: "blank" is empty
\* after strip(); for "json" json.loads returns value; for "invalid" it raises
\* JSONDecodeError; for "deep" it raises another exception (RecursionError for
\* brackets nested beyond the recursion limit, ValueError for an integer of
\* more digits than the interpreter converts).
Line(kind, value) == [kind |-> kind, value |-> value]

\* json.loads(line)
json_loads(line) ==
    IF line.kind = "json" THEN [raises |-> "", value |-> line.value]
    ELSE IF line.kind = "invalid" THEN [raises |-> "JSONDecodeError", value |-> ""]
    ELSE [raises |-> "Exception", value |-> ""]

\* the body of "for line_num, line in enumerate(f, 1)" for one line: what is
\* yielded, and whether the generator goes on
LineStep(line) ==
    IF line.kind = "blank" THEN [yields |-> <<>>, goes_on |-> TRUE]
    ELSE LET parsed == json_loads(line)
         IN  IF parsed.raises = "" THEN [yields |-> <<parsed.value>>, goes_on |-> TRUE]
             ELSE IF parsed.raises = "JSONDecodeError"
             THEN [yields |-> <<>>, goes_on |-> TRUE]
             ELSE [yields |-> <<>>, goes_on |-> FALSE]

\* the entries stream_logs yields from the lines of an open file
RECURSIVE Stream(_)
Stream(lines) ==
    IF lines = <<>> THEN <<>>
    ELSE LET step == LineStep(Head(lines))
         IN  IF step.goes_on THEN step.yields \o Stream(Tail(lines)) ELSE step.yields

\* list(stream_logs(file_path, show_progress=False))
load_logs(file) == IF file.exists THEN Stream(file.lines) ELSE <<>>

\* the number of entries stream_logs yields
count_log_entries(file) == Len(load_logs(file))

LogLines ==
    { Line("blank", ""), Line("json", "entry1"), Line("json", "entry2"),
      Line("invalid", ""), Line("deep", "") }

\* a file that does not exist, or a file of up to MaxLines lines
LogFiles ==
    {NoLogFile} \cup {[exists |-> TRUE, lines |-> ls] : ls \in SeqsUpTo(LogLines, MaxLines)}

InitStream ==
    /\ spec_endpoints = <<>>
    /\ current_time = [set |-> TRUE, aware |-> TRUE, t |-> 0]
    /\ endpoint_stats = <<>>
    /\ pc = "stream"
    /\ results = <<>>
    /\ call = NoCall
    /\ NoModifierCall
    /\ log_file \in LogFiles
    /\ line_num = 0
    /\ yielded = <<>>
    /\ NoScan
    /\ NoPrune

\* the analysis and the spec mutator are not running
AnalysisIdle ==
    /\ UNCHANGED <<spec_endpoints, current_time, endpoint_stats, results, call>>
    /\ UNCHANGED modifier_vars

\* open(path) raises FileNotFoundError: the generator prints and ends
OpenFails ==
    /\ pc = "stream"
    /\ ~log_file.exists
    /\ pc' = "ended"
    /\ UNCHANGED stream_vars
    /\ AnalysisIdle
    /\ UNCHANGED <<scan_vars, prune_vars>>

\* the generator reads the next line
ReadLine ==
    /\ pc = "stream"
    /\ log_file.exists
    /\ line_num < Len(log_file.lines)
    /\ LET step == LineStep(log_file.lines[line_num + 1])
       IN  /\ yielded' = yielded \o step.yields
           /\ pc' = IF step.goes_on THEN pc ELSE "ended"
    /\ line_num' = line_num + 1
    /\ UNCHANGED log_file
    /\ AnalysisIdle
    /\ UNCHANGED <<scan_vars, prune_vars>>

\* the file is exhausted
EndOfFile ==
    /\ pc = "stream"
    /\ log_file.exists
    /\ line_num = Len(log_file.lines)
    /\ pc' = "ended"
    /\ UNCHANGED stream_vars
    /\ AnalysisIdle
    /\ UNCHANGED <<scan_vars, prune_vars>>

NextStream == OpenFails \/ ReadLine \/ EndOfFile

SpecStream == InitStream /\ [][NextStream]_vars

\* ------------------------------------------------------ the parallel scan

MaxServices == 2
MaxWorkers == 2

ServiceConfig(name, spec_path, logs_path) ==
    [name |-> name, spec |-> spec_path, logs |-> logs_path]

\* the dict scan_service returns on success
SuccessResult(service, endpoints, analysis) ==
    [service |-> service.name,
     status |-> "success",
     endpoints_total |-> Len(endpoints),
     endpoints_unused |->
         Cardinality({i \in 1..Len(analysis) : analysis[i].call_count = 0}),
     results |-> analysis]

\* the dict it returns when an exception was caught (no endpoint counts, no
\* results)
ErrorResult(service) ==
    [service |-> service.name, status |-> "error",
     endpoints_total |-> -1, endpoints_unused |-> -1, results |-> <<>>]

NoResult ==
    [service |-> "", status |-> "pending",
     endpoints_total |-> -1, endpoints_unused |-> -1, results |-> <<>>]

\* the lines stream_logs reads for a service
ServiceLines(service) == IF service.logs.exists THEN service.logs.lines ELSE <<>>

\* "for log in logs" over the generator: the stats table after the last entry,
\* or the exception of the entry that raised
RECURSIVE RunLoop(_, _, _)
RunLoop(stats, endpoints, lines) ==
    IF lines = <<>> THEN [raised |-> FALSE, stats |-> stats]
    ELSE LET step == LineStep(Head(lines))
             round == IF step.yields = <<>>
                      THEN [raised |-> FALSE, stats |-> stats]
                      ELSE Round(stats, endpoints, step.yields[1])
         IN  IF round.raised \/ ~step.goes_on THEN round
             ELSE RunLoop(round.stats, endpoints, Tail(lines))

\* the return value for a stats table after the loop
ScanOutcome(service, endpoints, stats) ==
    IF ScoringRaises(stats, current_time)
    THEN ErrorResult(service)
    ELSE SuccessResult(service, endpoints, Results(stats, current_time))

\* scan_service(service), run alone
scan_service(service) ==
    LET endpoints == parse_openapi_endpoints(service.spec)
        loop == RunLoop(InitStats(endpoints, <<>>), endpoints, ServiceLines(service))
    IN  IF loop.raised THEN ErrorResult(service)
        ELSE ScanOutcome(service, endpoints, loop.stats)

\* mutant: every analysis keeps its stats in the same dict
Table_Shared(i) == 1

\* the stats dict of the i-th analysis: a local of its own call
Table(i) == i

\* a future: not yet taken by a worker, running scan_service with these
\* locals, done with a result, or done and collected by as_completed
Future(state, endpoints, pos, result) ==
    [state |-> state, endpoints |-> endpoints, pos |-> pos, result |-> result]

\* services: one with two matched entries around a line that is no JSON; one
\* with another spec and one matched entry; one whose log has a null method;
\* one whose log has a timestamp without zone; one whose spec file is missing
Services ==
    LET OneSpec == Document("dict", TRUE, TRUE,
                            <<PathEntry(<<"/", "a">>, PathItem({"get"}))>>)
        TwoSpec == Document("dict", TRUE, TRUE,
                            <<PathEntry(<<"/", "a">>, PathItem({"get", "trace"}))>>)
        LogsOf(lines) == [exists |-> TRUE, lines |-> lines]
    IN
    { ServiceConfig("users", OneSpec,
          LogsOf(<< Line("json", LogEntry("GET", <<"/", "a">>, IsoTs(OldT, "Z"),
                                          "app01", Missing, Missing)),
                    Line("invalid", ""),
                    Line("json", LogEntry("get", <<"/", "a">>, AbsentTs,
                                          "app02", Missing, Missing)) >>)),
      ServiceConfig("orders", TwoSpec,
          LogsOf(<< Line("json", LogEntry("GET", <<"/", "a">>, IsoTs(RecentT, "Z"),
                                          Missing, Missing, "app03")) >>)),
      ServiceConfig("nullmethod", OneSpec,
          LogsOf(<< Line("json", LogEntry("GET", <<"/", "a">>, AbsentTs,
                                          Missing, Missing, Missing)),
                    Line("json", LogEntry(NoneVal, <<"/", "a">>, AbsentTs,
                                          Missing, Missing, Missing)) >>)),
      ServiceConfig("naive", OneSpec,
          LogsOf(<< Line("json", LogEntry("GET", <<"/", "a">>, IsoTs(RecentT, ""),
                                          Missing, Missing, Missing)) >>)),
      ServiceConfig("nospec", NoFile, NoLogFile) }

\* the reference time is datetime.now(timezone.utc)
InitScan ==
    /\ spec_endpoints = <<>>
    /\ current_time = DateTime(TRUE, Now)
    /\ endpoint_stats = <<>>
    /\ pc = "scan"
    /\ results = <<>>
    /\ call = NoCall
    /\ NoModifierCall
    /\ NoStream
    /\ services \in SeqsUpTo(Services, MaxServices)
    /\ max_workers \in 1..MaxWorkers
    /\ futures = [i \in 1..Len(services) |-> Future("queued", <<>>, 0, NoResult)]
    /\ tables = [i \in 1..Len(services) |-> <<>>]
    /\ scan_results = <<>>
    /\ NoPrune

Running == {i \in 1..Len(futures) : futures[i].state = "running"}

\* a free worker takes the oldest queued future: scan_service parses the spec
\* and the analysis sets up its stats dict
StartScan(i) ==
    /\ pc = "scan"
    /\ futures[i].state = "queued"
    /\ \A j \in 1..(i - 1) : futures[j].state # "queued"
    /\ Cardinality(Running) < max_workers
    /\ LET endpoints == parse_openapi_endpoints(services[i].spec)
       IN  /\ futures' = [futures EXCEPT ![i] = Future("running", endpoints, 0, NoResult)]
           /\ tables' = [tables EXCEPT ![Table(i)] = InitStats(endpoints, <<>>)]
    /\ UNCHANGED <<pc, scan_results>>
    /\ AnalysisIdle
    /\ UNCHANGED <<stream_vars, prune_vars, services, max_workers>>

\* the analysis of a running scan pulls the next line of its log
ScanLine(i) ==
    /\ pc = "scan"
    /\ futures[i].state = "running"
    /\ futures[i].pos < Len(ServiceLines(services[i]))
    /\ LET step == LineStep(ServiceLines(services[i])[futures[i].pos + 1])
           stats == tables[Table(i)]
           round == IF step.yields = <<>>
                    THEN [raised |-> FALSE, stats |-> stats]
                    ELSE Round(stats, futures[i].endpoints, step.yields[1])
       IN  IF round.raised
           THEN /\ futures' = [futures EXCEPT ![i].state = "done",
                                               ![i].result = ErrorResult(services[i])]
                /\ UNCHANGED tables
           ELSE /\ futures' = [futures EXCEPT ![i].pos =
                                   IF step.goes_on THEN futures[i].pos + 1
                                   ELSE Len(ServiceLines(services[i]))]
                /\ tables' = [tables EXCEPT ![Table(i)] = round.stats]
    /\ UNCHANGED <<pc, scan_results>>
    /\ AnalysisIdle
    /\ UNCHANGED <<stream_vars, prune_vars, services, max_workers>>

\* the log of a running scan is exhausted: the analysis scores and sorts,
\* scan_service returns
ScanFinish(i) ==
    /\ pc = "scan"
    /\ futures[i].state = "running"
    /\ futures[i].pos = Len(ServiceLines(services[i]))
    /\ futures' = [futures EXCEPT
                      ![i].state = "done",
                      ![i].result = ScanOutcome(services[i], futures[i].endpoints,
                                                tables[Table(i)])]
    /\ UNCHANGED <<pc, tables, scan_results>>
    /\ AnalysisIdle
    /\ UNCHANGED <<stream_vars, prune_vars, services, max_workers>>

\* as_completed hands a finished future to the main thread
Collect(i) ==
    /\ pc = "scan"
    /\ futures[i].state = "done"
    /\ scan_results' = Append(scan_results, futures[i].result)
    /\ futures' = [futures EXCEPT ![i].state = "collected"]
    /\ UNCHANGED <<pc, tables>>
    /\ AnalysisIdle
    /\ UNCHANGED <<stream_vars, prune_vars, services, max_workers>>

\* every future was collected: the executor shuts down, the list is returned
ScanReturn ==
    /\ pc = "scan"
    /\ \A i \in 1..Len(futures) : futures[i].state = "collected"
    /\ pc' = "returned"
    /\ UNCHANGED <<futures, tables, scan_results>>
    /\ AnalysisIdle
    /\ UNCHANGED <<stream_vars, prune_vars, services, max_workers>>

NextScan ==
    \/ \E i \in 1..Len(futures) : StartScan(i)
    \/ \E i \in 1..Len(futures) : ScanLine(i)
    \/ \E i \in 1..Len(futures) : ScanFinish(i)
    \/ \E i \in 1..Len(futures) : Collect(i)
    \/ ScanReturn

SpecScan == InitScan /\ [][NextScan]_vars

\* ----------------------------------------------------- the prune command

\* The repository at Path.cwd() and the spec file: whether there is a
\* repository at all, whether tracked files other than the spec have
\* uncommitted changes, whether the spec is tracked on the branch the run
\* starts from (main), the branch checked out, the spec in the working tree
\* ("original", "modified", or "absent"), the spec in the index ("none" when
\* untracked), and what the run has done so far.
Git(repo, other_changes, tracked) ==
    [repo |-> repo, other_changes |-> other_changes, tracked |-> tracked,
     head |-> "main", work |-> "original",
     index |-> IF tracked THEN "original" ELSE "none",
     branch_made |-> FALSE, committed |-> FALSE, pushed |-> FALSE,
     written |-> FALSE, pr |-> FALSE]

\* The options of the run and the answers of its collaborators: --dry-run, the
\* number of endpoints at or above the threshold, whether
\* remove_endpoints_from_spec succeeds, the git call of
\* create_branch_and_commit that raises ("none", "create_head", "add",
\* "commit"), whether the push, the lookup of the GitHub repository and the
\* GitHub API call succeed.
PruneEnv(dry_run, candidates, modify_ok, fault, push_ok, repo_info, pr_ok) ==
    [dry_run |-> dry_run, candidates |-> candidates, modify_ok |-> modify_ok,
     fault |-> fault, push_ok |-> push_ok, repo_info |-> repo_info, pr_ok |-> pr_ok]

\* repo.is_dirty(): changes to tracked files, staged or not; untracked files
\* do not count
is_dirty(g) ==
    \/ g.other_changes
    \/ g.index # "none" /\ g.work # g.index
    \/ g.index = "modified" /\ ~g.committed

\* repo.git.checkout("--", spec_path): the working-tree file is replaced by
\* the index entry; for a path git does not know the command fails
checkout_file(g) ==
    IF g.index = "none" THEN [raises |-> TRUE, git |-> g]
    ELSE [raises |-> FALSE, git |-> [g EXCEPT !.work = g.index]]

\* create_branch_and_commit: the tuple it returns and the repository after it
create_branch_and_commit(g, env) ==
    IF is_dirty(g)
    THEN [ret |-> <<FALSE, "Repository has uncommitted changes">>, git |-> g]
    ELSE IF env.fault = "create_head"
    THEN [ret |-> <<FALSE, "Failed to create branch">>, git |-> g]
    ELSE LET on_branch == [g EXCEPT !.head = "branch", !.branch_made = TRUE]
             added == [on_branch EXCEPT !.index = on_branch.work]
         IN  IF env.fault = "add"
             THEN [ret |-> <<FALSE, "Git operation failed">>, git |-> on_branch]
             ELSE IF env.fault = "commit"
             THEN [ret |-> <<FALSE, "Git operation failed">>, git |-> added]
             ELSE [ret |-> <<TRUE, "Created branch and committed changes">>,
                   git |-> [added EXCEPT !.committed = TRUE]]

\* push_branch
push_branch(g, env) ==
    IF env.push_ok
    THEN [ret |-> <<TRUE, "Pushed branch">>, git |-> [g EXCEPT !.pushed = TRUE]]
    ELSE [ret |-> <<FALSE, "Push failed">>, git |-> g]

\* the cleanup after a failed push: main is checked out again (a spec that
\* main does not track leaves the working tree) and the branch is deleted
CleanedUp(g) ==
    [g EXCEPT !.head = "main",
              !.work = IF g.tracked THEN "original" ELSE "absent",
              !.index = IF g.tracked THEN "original" ELSE "none",
              !.branch_made = FALSE]

Outcome(next_pc, g, ret, messages) ==
    [pc |-> next_pc, git |-> g, branch_result |-> ret, console |-> messages]

\* "except Exception": the rollback is tried, an error of it is swallowed
Unexpected(g, ret, messages) ==
    Outcome("aborted", checkout_file(g).git, ret,
            messages \o <<"Unexpected error", "Rolling back changes">>)

\* "Git operations - with rollback on failure" and "Create PR"
PublishOutcome(g, env) ==
    LET cb == create_branch_and_commit(g, env)
        started == <<"Creating git branch">>
    IN  IF Len(cb.ret) # 3
        THEN \* success, message, actual_branch = ...: ValueError
             Unexpected(cb.git, cb.ret, started)
        ELSE IF ~cb.ret[1]
        THEN LET back == checkout_file(cb.git)
                 told == started \o <<cb.ret[2], "Rolling back changes">>
             IN  IF back.raises THEN Unexpected(cb.git, cb.ret, told)
                 ELSE Outcome("aborted", back.git, cb.ret, told)
        ELSE LET pushed == push_branch(cb.git, env)
                 pushing == started \o <<cb.ret[2], "Pushing to GitHub">>
             IN  IF ~pushed.ret[1]
                 THEN Outcome("aborted", CleanedUp(pushed.git), cb.ret,
                              pushing \o <<pushed.ret[2], "Cleaned up failed branch">>)
                 ELSE LET creating == pushing \o <<pushed.ret[2], "Creating pull request">>
                      IN  IF ~env.repo_info
                          THEN Outcome("aborted", pushed.git, cb.ret,
                                       creating \o <<"Could not determine GitHub repository">>)
                          ELSE IF ~env.pr_ok
                          THEN Outcome("aborted", pushed.git, cb.ret,
                                       creating \o <<"Failed to create PR">>)
                          ELSE Outcome("done", [pushed.git EXCEPT !.pr = TRUE], cb.ret,
                                       creating \o <<"Pull request created">>)

InitPrune ==
    /\ spec_endpoints = <<>>
    /\ current_time = [set |-> TRUE, aware |-> TRUE, t |-> 0]
    /\ endpoint_stats = <<>>
    /\ pc = "select"
    /\ results = <<>>
    /\ call = NoCall
    /\ NoModifierCall
    /\ NoStream
    /\ NoScan
    /\ \E dry_run, modify_ok, push_ok, repo_info, pr_ok \in BOOLEAN :
          \E candidates \in {0, 1}, fault \in {"none", "create_head", "add", "commit"} :
             prune_env = PruneEnv(dry_run, candidates, modify_ok, fault,
                                  push_ok, repo_info, pr_ok)
    /\ \E repo, other_changes, tracked \in BOOLEAN :
          /\ ~repo => ~other_changes /\ ~tracked
          /\ git = Git(repo, other_changes, tracked)
    /\ branch_result = <<>>
    /\ console = <<>>

\* "Filter endpoints to remove": nothing to remove and --dry-run end the run
Select ==
    /\ pc = "select"
    /\ IF prune_env.candidates = 0
       THEN pc' = "done" /\ console' = console \o <<"No endpoints found">>
       ELSE IF prune_env.dry_run
       THEN pc' = "done" /\ console' = console \o <<"Dry run mode - no changes made">>
       ELSE pc' = "check_git" /\ UNCHANGED console
    /\ UNCHANGED <<git, branch_result>>
    /\ AnalysisIdle
    /\ UNCHANGED <<stream_vars, scan_vars, prune_env>>

\* "Check git status BEFORE modifying files"
CheckGit ==
    /\ pc = "check_git"
    /\ IF ~git.repo
       THEN pc' = "aborted" /\ console' = console \o <<"Not a git repository">>
       ELSE IF is_dirty(git)
       THEN pc' = "aborted" /\ console' = console \o <<"Repository has uncommitted changes">>
       ELSE pc' = "remove" /\ UNCHANGED console
    /\ UNCHANGED <<git, branch_result>>
    /\ AnalysisIdle
    /\ UNCHANGED <<stream_vars, scan_vars, prune_env>>

\* "Remove endpoints from spec": on success the spec file is rewritten
RemoveEndpoints ==
    /\ pc = "remove"
    /\ IF prune_env.modify_ok
       THEN /\ git' = [git EXCEPT !.work = "modified", !.written = TRUE]
            /\ pc' = "publish"
            /\ console' = console \o <<"Removing endpoints from spec">>
       ELSE /\ pc' = "aborted"
            /\ console' = console \o <<"Removing endpoints from spec", "Failed">>
            /\ UNCHANGED git
    /\ UNCHANGED branch_result
    /\ AnalysisIdle
    /\ UNCHANGED <<stream_vars, scan_vars, prune_env>>

\* the git operations and the pull request
Publish ==
    /\ pc = "publish"
    /\ LET out == PublishOutcome(git, prune_env)
       IN  /\ pc' = out.pc
           /\ git' = out.git
           /\ branch_result' = out.branch_result
           /\ console' = console \o out.console
    /\ AnalysisIdle
    /\ UNCHANGED <<stream_vars, scan_vars, prune_env>>

NextPrune == Select \/ CheckGit \/ RemoveEndpoints \/ Publish

SpecPrune == InitPrune /\ [][NextPrune]_vars

\* the command runs to its end
LivePrune == SpecPrune /\ WF_vars(NextPrune)

\* ------------------------------------- what the claims mean by "matches"

\* the concrete path without its surrounding whitespace
Trimmed(s) ==
    LET solid == {i \in 1..Len(s) : s[i] # " "}
    IN  IF solid = {} THEN <<>>
        ELSE SubSeq(s, CHOOSE i \in solid : \A j \in solid : i <= j,
                       CHOOSE i \in solid : \A j \in solid : j <= i)

\* where the non-empty '/'-separated segments of s start
SegStarts(s) == {i \in 1..Len(s) : s[i] # "/" /\ (i = 1 \/ s[i - 1] = "/")}

SegCount(s) == Cardinality(SegStarts(s))

\* the k-th non-empty segment of s
Seg(s, k) ==
    LET from == CHOOSE i \in SegStarts(s) :
                    Cardinality({j \in SegStarts(s) : j < i}) = k - 1
        upto == CHOOSE j \in from..Len(s) :
                    /\ \A x \in from..j : s[x] # "/"
                    /\ j = Len(s) \/ s[j + 1] = "/"
    IN  SubSeq(s, from, upto)

Wrapped(seg) == Len(seg) >= 1 /\ seg[1] = "{" /\ seg[Len(seg)] = "}"

\* template path tp fits the concrete path cp, segment by segment
Fits(tp, cp) ==
    /\ SegCount(tp) = SegCount(Trimmed(cp))
    /\ \A k \in 1..SegCount(tp) :
          Wrapped(Seg(tp, k)) \/ Seg(tp, k) = Seg(Trimmed(cp), k)

MethodGiven(m) == m # NoneVal /\ m # ""

C7_MethodFilter ==
    pc = "matched" =>
        LET considered ==
                {i \in 1..Len(spec_endpoints) :
                    /\ MethodGiven(call.method) =>
                           spec_endpoints[i].method = Upper(call.method)
                    /\ spec_endpoints[i].path # <<>>
                    /\ Trimmed(call.log_path) # <<>>
                    /\ Fits(spec_endpoints[i].path, call.log_path)}
        IN  /\ call.result = <<>> <=> considered = {}
            /\ call.result # <<>> =>
                   \E i \in considered : spec_endpoints[i].path = call.result

\* the path fits a POST template only, and a lower-case "get" finds nothing
C7_Witness ==
    /\ pc = "matched"
    /\ call.method = "get"
    /\ call.result = <<>>
    /\ \E i \in 1..Len(spec_endpoints) :
          /\ spec_endpoints[i].method = "POST"
          /\ spec_endpoints[i].path # <<>>
          /\ Fits(spec_endpoints[i].path, call.log_path)

\* ------------------------------------------------ claims on the aggregator

ResultKey(r) == Key(r.method, r.path)

InputKeys == {Key(spec_endpoints[i].method, spec_endpoints[i].path) :
                 i \in 1..Len(spec_endpoints)}

ResultsWithKey(k) == {i \in 1..Len(results) : ResultKey(results[i]) = k}

\* C1, as claimed: the output has as many results as the input has templates,
\* each (method, path) of the input exactly once
C1_OneResultPerTemplate ==
    pc = "done" =>
        /\ Len(results) = Len(spec_endpoints)
        /\ \A k \in InputKeys : Cardinality(ResultsWithKey(k)) = 1

\* C1, amended: one result per distinct (method, path) pair of the input, called
\* or not, and no other result; as many results as templates when the pairs of
\* the input are pairwise distinct
C1_OneResultPerDistinctTemplate ==
    pc = "done" =>
        /\ \A k \in InputKeys : Cardinality(ResultsWithKey(k)) = 1
        /\ \A i \in 1..Len(results) : ResultKey(results[i]) \in InputKeys
        /\ Len(results) = Cardinality(InputKeys)
        /\ Cardinality(InputKeys) = Len(spec_endpoints) => Len(results) = Len(spec_endpoints)

\* two distinct templates, one called and one never matched, both reported
C1_Witness ==
    /\ pc = "done"
    /\ Len(spec_endpoints) = 2
    /\ Cardinality(InputKeys) = 2
    /\ \E i, j \in 1..Len(results) :
          results[i].call_count = 0 /\ results[j].call_count > 0

\* C2: a result with call_count 0 has score 100 and the single reason "Never
\* called in logs"; when the log loop changed nothing, every result is such
C2_ZeroUsage ==
    pc = "done" =>
        /\ \A i \in 1..Len(results) :
              results[i].call_count = 0 =>
                  /\ results[i].confidence_score = 100
                  /\ results[i].confidence_reasons = << <<"Never called in logs">> >>
        /\ endpoint_stats = InitStats(spec_endpoints, <<>>) =>
              \A i \in 1..Len(results) :
                  results[i].call_count = 0 /\ results[i].confidence_score = 100

\* a never-called endpoint reported beside a called one
C2_Witness ==
    /\ pc = "done"
    /\ \E i, j \in 1..Len(results) :
          /\ results[i].call_count = 0
          /\ results[i].confidence_score = 100
          /\ results[j].call_count > 0
          /\ results[j].confidence_score < 100

\* days between the reference time and a result's last_seen
ResultDays(r) == (current_time.t - r.last_seen.t) \div 2

C4_ScoreInRange ==
    pc = "done" =>
        \A i \in 1..Len(results) : results[i].confidence_score \in 0..100

\* the adjustments add up to more than 100 and the clamp cuts them
C4_Witness ==
    /\ pc = "done"
    /\ \E i \in 1..Len(endpoint_stats) :
          Confidence(endpoint_stats[i], current_time).score > 100
    /\ \E i \in 1..Len(results) : results[i].confidence_score = 100

\* the place of the first template with key k in the input list
FirstIndex(k) ==
    CHOOSE i \in 1..Len(spec_endpoints) :
        /\ Key(spec_endpoints[i].method, spec_endpoints[i].path) = k
        /\ \A j \in 1..(i - 1) :
              Key(spec_endpoints[j].method, spec_endpoints[j].path) # k

\* C5: the results are in non-increasing order of score, and results of equal
\* score are in the order of their templates' first places in the input
C5_SortedStable ==
    pc = "done" =>
        \A i, j \in 1..Len(results) :
            i < j =>
                /\ results[i].confidence_score >= results[j].confidence_score
                /\ results[i].confidence_score = results[j].confidence_score =>
                       FirstIndex(ResultKey(results[i])) < FirstIndex(ResultKey(results[j]))

\* the sort moved the second template's result before the first's
C5_Witness ==
    /\ pc = "done"
    /\ Len(results) = 2
    /\ results[1].confidence_score > results[2].confidence_score
    /\ FirstIndex(ResultKey(results[1])) = 2
\* the templates of method m that fit the concrete path, by place in the list
FittingPlaces(m, log_path) ==
    {i \in 1..Len(spec_endpoints) :
        /\ spec_endpoints[i].method = m
        /\ spec_endpoints[i].path # <<>>
        /\ Trimmed(log_path) # <<>>
        /\ Fits(spec_endpoints[i].path, log_path)}

Earliest(places) == CHOOSE i \in places : \A j \in places : i <= j

\* what C8 says of the round that processes log: the matcher returns the path
\* of the earliest fitting template of the entry's method, whatever its
\* segments are, and the round adds 1 to the call_count of that template's
\* endpoint and to no other
C8_Round(log) ==
    LET m == Upper(Get(log.method, ""))
        places == FittingPlaces(m, log.path)
        key == IF places = {} THEN <<>>
               ELSE Key(m, spec_endpoints[Earliest(places)].path)
    IN  /\ match_log_to_spec(log.path, spec_endpoints, m) =
               IF places = {} THEN <<>> ELSE spec_endpoints[Earliest(places)].path
        /\ pc' = "loop" =>
              /\ Len(endpoint_stats') = Len(endpoint_stats)
              /\ \A i \in 1..Len(endpoint_stats) :
                    /\ endpoint_stats'[i].key = endpoint_stats[i].key
                    /\ endpoint_stats'[i].call_count =
                           endpoint_stats[i].call_count
                           + (IF endpoint_stats[i].key = key THEN 1 ELSE 0)

\* C8: first positional match wins, and each entry is counted for at most one
\* endpoint, that of the earliest fitting template of its method
C8_FirstMatchWins ==
    [][\A log \in LogEntries :
          (log.method # NoneVal /\ ProcessLog(log)) => C8_Round(log)]_vars

\* "/a" fits both /{} and /a; the parameter template comes first and gets the
\* entry (the only entry with an offset timestamp at RecentT has path "/a")
C8_Witness ==
    /\ spec_endpoints = <<Template("GET", <<"/", "{", "}">>), Template("GET", <<"/", "a">>)>>
    /\ pc = "loop"
    /\ endpoint_stats[1].call_count = 1
    /\ endpoint_stats[1].last_seen = DateTime(TRUE, RecentT)
    /\ endpoint_stats[2].call_count = 0

\* C9, as claimed: no round of the log loop over an entry with a missing or
\* empty method or path, a missing caller, or an absent, unparsable or ISO
\* timestamp aborts the call, and neither does the scoring that follows
C9_NeverAborts ==
    [][/\ \A log \in LogEntries :
             (log.method # NoneVal /\ ProcessLog(log)) => pc' # "raised"
       /\ Finish => pc' # "raised"]_vars

\* what the claim gives for unique_callers distinct callers
C10_Delta(unique_callers) ==
    IF unique_callers = 1 THEN 10
    ELSE IF unique_callers \in {2, 3} THEN 5
    ELSE IF unique_callers > 10 THEN -10
    ELSE 0

IsDiversityReason(reason) ==
    reason[1] \in {"Single caller only", "Few unique callers", "Many unique callers"}

\* C10, as claimed: the diversity adjustment of a called endpoint is +10 for 1
\* caller, +5 for 2 or 3, -10 for more than 10, and for every other count
\* nothing is added and no diversity reason is given
C10_DiversityBands ==
    pc = "done" =>
        \A i \in 1..Len(endpoint_stats) :
            LET st == endpoint_stats[i]
                u == Cardinality(st.callers)
                c == Confidence(st, current_time)
            IN  st.call_count > 0 =>
                    /\ c.score = 50 + FrequencyAdj(st.call_count).delta
                                    + RecencyAdj(current_time, st.last_seen).delta
                                    + C10_Delta(u)
                    /\ (\E j \in 1..Len(c.reasons) : IsDiversityReason(c.reasons[j]))
                           <=> C10_Delta(u) # 0
                    /\ u = 1 => c.reasons[Len(c.reasons)] = <<"Single caller only">>

\* what the claim gives for an endpoint called call_count times
C11_Delta(call_count) ==
    IF call_count = 1 THEN 30
    ELSE IF call_count \in 2..5 THEN 20
    ELSE IF call_count \in 6..20 THEN 10
    ELSE IF call_count \in 21..100 THEN -10
    ELSE -30

C11_Reason(call_count) ==
    IF call_count = 1 THEN <<"Called only once">>
    ELSE IF call_count \in 2..5 THEN <<"Very low call count", call_count>>
    ELSE IF call_count \in 6..20 THEN <<"Low call count", call_count>>
    ELSE IF call_count \in 21..100 THEN <<"Moderate call count", call_count>>
    ELSE <<"High call count", call_count>>

\* the result that reports the endpoint of a stats entry
ResultOf(st) == results[CHOOSE j \in 1..Len(results) : ResultKey(results[j]) = st.key]

IsFrequencyReason(reason) ==
    reason[1] \in {"Called only once", "Very low call count", "Low call count",
                   "Moderate call count", "High call count"}

\* C11: the score of a called endpoint starts at 50 and takes exactly one
\* frequency adjustment, +30 for 1 call, +20 for 2 to 5, +10 for 6 to 20, -10
\* for 21 to 100, -30 for more than 100; exactly one reason names the band,
\* and in every band but the first it carries the call count
C11_FrequencyBands ==
    pc = "done" =>
        \A i \in 1..Len(endpoint_stats) :
            LET st == endpoint_stats[i]
                c == Confidence(st, current_time)
                r == ResultOf(st)
            IN  st.call_count > 0 =>
                    /\ c.score = 50 + C11_Delta(st.call_count)
                                    + RecencyAdj(current_time, st.last_seen).delta
                                    + DiversityAdj(Cardinality(st.callers)).delta
                    /\ Cardinality({j \in 1..Len(r.confidence_reasons) :
                                       IsFrequencyReason(r.confidence_reasons[j])}) = 1
                    /\ \E j \in 1..Len(r.confidence_reasons) :
                          r.confidence_reasons[j] = C11_Reason(r.call_count)

\* an endpoint called more than 100 times, in the last band
C11_Witness ==
    /\ pc = "done"
    /\ \E i \in 1..Len(results) :
          /\ results[i].call_count > 100
          /\ \E j \in 1..Len(results[i].confidence_reasons) :
                results[i].confidence_reasons[j] = <<"High call count", results[i].call_count>>

\* the whole days from an instant to the reference time: the integer d with
\* d days <= the time between them < d + 1 days (a day is two units of time)
WholeDays(t) ==
    CHOOSE d \in -4..(Now \div 2 + 4) :
        2 * d <= current_time.t - t /\ current_time.t - t < 2 * d + 2

\* what the claim gives for a last_seen d whole days before the reference time
C12_Delta(d) ==
    IF d > 365 THEN 20
    ELSE IF d \in 181..365 THEN 15
    ELSE IF d \in 91..180 THEN 10
    ELSE IF d \in 31..90 THEN 5
    ELSE -10

C12_Reason(d) ==
    IF d > 365 THEN <<"Last seen (>1 year)", d>>
    ELSE IF d \in 181..365 THEN <<"Last seen (>6 months)", d>>
    ELSE IF d \in 91..180 THEN <<"Last seen (>3 months)", d>>
    ELSE IF d \in 31..90 THEN <<"Last seen (>1 month)", d>>
    ELSE <<"Recently active", d>>

IsRecencyReason(reason) ==
    reason[1] \in {"Last seen (>1 year)", "Last seen (>6 months)",
                   "Last seen (>3 months)", "Last seen (>1 month)", "Recently active"}

RecencyReasons(r) ==
    {j \in 1..Len(r.confidence_reasons) : IsRecencyReason(r.confidence_reasons[j])}

\* C12: a called endpoint takes a recency adjustment only when a last_seen was
\* recorded: with d the whole days from last_seen to the reference time, +20
\* for d > 365, +15 for 181..365, +10 for 91..180, +5 for 31..90, -10 for
\* d <= 30, a last_seen after the reference time included; with no timestamp
\* the score takes no recency adjustment and the reasons no recency reason
C12_RecencyBands ==
    pc = "done" =>
        \A i \in 1..Len(endpoint_stats) :
            LET st == endpoint_stats[i]
                c == Confidence(st, current_time)
                r == ResultOf(st)
                rest == 50 + FrequencyAdj(st.call_count).delta
                           + DiversityAdj(Cardinality(st.callers)).delta
            IN  st.call_count > 0 =>
                    IF st.last_seen.set
                    THEN LET d == WholeDays(st.last_seen.t)
                         IN  /\ c.score = rest + C12_Delta(d)
                             /\ Cardinality(RecencyReasons(r)) = 1
                             /\ \E j \in RecencyReasons(r) :
                                   r.confidence_reasons[j] = C12_Reason(d)
                    ELSE /\ c.score = rest
                         /\ RecencyReasons(r) = {}

\* a last_seen later than the reference time counts as recently active
C12_Witness ==
    /\ pc = "done"
    /\ \E i \in 1..Len(results) :
          /\ results[i].last_seen.kind = "iso"
          /\ results[i].last_seen.t > current_time.t
          /\ \E j \in 1..Len(results[i].confidence_reasons) :
                results[i].confidence_reasons[j][1] = "Recently active"

\* what the frequency band adds to the score of a called endpoint
C13_FrequencyPart(st) ==
    Confidence(st, current_time).score - 50
        - RecencyAdj(current_time, st.last_seen).delta
        - DiversityAdj(Cardinality(st.callers)).delta

\* C13: in every step of a call that goes on, no endpoint's call_count
\* decreases, the frequency band of an endpoint that was already called adds no
\* more to its score than before, and an endpoint that changes in call_count
\* alone does not get a higher score
C13_Monotone ==
    [][pc' # "raised" =>
          /\ Len(endpoint_stats') = Len(endpoint_stats)
          /\ \A i \in 1..Len(endpoint_stats) :
                LET old == endpoint_stats[i]
                    new == endpoint_stats'[i]
                IN  /\ new.call_count >= old.call_count
                    /\ old.call_count > 0 =>
                          C13_FrequencyPart(new) <= C13_FrequencyPart(old)
                    /\ (new.last_seen = old.last_seen /\ new.callers = old.callers) =>
                          Clamp(Confidence(new, current_time).score)
                              <= Clamp(Confidence(old, current_time).score)]_vars

\* an endpoint whose last_seen only a pulled entry can have set, and whose
\* call_count has entered the band of 21 to 100 calls
C13_Witness ==
    /\ pc = "done"
    /\ \E i \in 1..Len(results) :
          /\ results[i].call_count = 21
          /\ results[i].last_seen = IsoTs(Now - 2 * 10, "+00:00")
          /\ results[i].confidence_reasons[1] = <<"Moderate call count", 21>>

\* the category of a reason: 1 frequency, 2 recency, 3 diversity, 0 none of them
Category(reason) ==
    IF IsFrequencyReason(reason) THEN 1
    ELSE IF IsRecencyReason(reason) THEN 2
    ELSE IF IsDiversityReason(reason) THEN 3
    ELSE 0

\* C16: the reasons of a called endpoint begin with exactly one frequency
\* reason, followed by the recency reason if there is one, followed by the
\* diversity reason if there is one, with at most one reason of each category
C16_ReasonOrder ==
    pc = "done" =>
        \A i \in 1..Len(results) :
            LET reasons == results[i].confidence_reasons
            IN  results[i].call_count > 0 =>
                    /\ Len(reasons) >= 1
                    /\ Category(reasons[1]) = 1
                    /\ \A j \in 1..Len(reasons) : Category(reasons[j]) # 0
                    /\ \A j, k \in 1..Len(reasons) :
                          j < k => Category(reasons[j]) < Category(reasons[k])

\* a called endpoint with a reason of each category
C16_Witness ==
    /\ pc = "done"
    /\ \E i \in 1..Len(results) :
          /\ results[i].call_count > 0
          /\ Len(results[i].confidence_reasons) = 3
          /\ Category(results[i].confidence_reasons[2]) = 2
          /\ Category(results[i].confidence_reasons[3]) = 3

\* a comes before b in lexicographic order
LexBefore(a, b) ==
    \E i, j \in 1..Len(CallerNames) :
        i < j /\ CallerNames[i] = a /\ CallerNames[j] = b

\* C17: the callers of a result are callers seen for its endpoint, in strictly
\* ascending lexicographic order (so without duplicates), min(10, unique_callers)
\* of them, and unique_callers is the number of all distinct callers seen
C17_CallersList ==
    pc = "done" =>
        \A i \in 1..Len(endpoint_stats) :
            LET st == endpoint_stats[i]
                r == ResultOf(st)
            IN  /\ r.unique_callers = Cardinality(st.callers)
                /\ Len(r.callers) = IF r.unique_callers < 10 THEN r.unique_callers ELSE 10
                /\ \A j \in 1..Len(r.callers) : r.callers[j] \in st.callers
                /\ \A j, k \in 1..Len(r.callers) :
                      j < k => LexBefore(r.callers[j], r.callers[k])

\* more than ten distinct callers: the list holds ten, the count all of them
C17_Witness ==
    /\ pc = "done"
    /\ \E i \in 1..Len(results) :
          /\ results[i].unique_callers > 10
          /\ Len(results[i].callers) = 10

\* the keys of a path item that name one of the eight methods in any case
AnyCaseMethodKeys(item) ==
    {k \in item.keys :
        \E i \in 1..Len(http_methods) : Lower(k) = http_methods[i]}

\* the keys of a path item that are one of the eight lower-case method names
MethodKeys(item) ==
    {k \in item.keys : \E i \in 1..Len(http_methods) : k = http_methods[i]}

\* the number of entries of the list that are this template
Occurrences(endpoints, template) ==
    Cardinality({i \in 1..Len(endpoints) : endpoints[i] = template})

DictItems(file) == {i \in 1..Len(file.paths) : file.paths[i].item.is_dict}

\* C18, as claimed: the list has one entry, with the method in upper case, for
\* every key of a path item that is one of the eight methods in any case, and
\* no other entries
C18_AnyCaseKeys ==
    (pc = "parsed" /\ spec_file.kind = "dict" /\ spec_file.paths_is_dict) =>
        /\ \A i \in DictItems(spec_file) :
              \A k \in AnyCaseMethodKeys(spec_file.paths[i].item) :
                 Occurrences(spec_endpoints,
                             Template(Upper(Lower(k)), spec_file.paths[i].path)) >= 1
        /\ Len(spec_endpoints) =
              Cardinality({<<i, k>> \in (1..Len(spec_file.paths)) \X ItemKeys :
                              /\ i \in DictItems(spec_file)
                              /\ k \in AnyCaseMethodKeys(spec_file.paths[i].item)})

\* C18, amended: the list has exactly one entry, with the method in upper
\* case, for every key of a path item that is one of the eight lower-case
\* method names; a key in any other case, and any other key, gives no entry
C18_LowerCaseKeys ==
    (pc = "parsed" /\ spec_file.kind = "dict" /\ spec_file.paths_is_dict) =>
        /\ \A i \in DictItems(spec_file) :
              \A k \in MethodKeys(spec_file.paths[i].item) :
                 Occurrences(spec_endpoints,
                             Template(Upper(k), spec_file.paths[i].path)) = 1
        /\ Len(spec_endpoints) =
              Cardinality({<<i, k>> \in (1..Len(spec_file.paths)) \X ItemKeys :
                              /\ i \in DictItems(spec_file)
                              /\ k \in MethodKeys(spec_file.paths[i].item)})

\* a path item with the keys get, GET, trace and parameters gives the entries
\* GET and TRACE, and nothing else
C18_Witness ==
    /\ pc = "parsed"
    /\ spec_file.kind = "dict"
    /\ \E i \in 1..Len(spec_file.paths) :
          /\ spec_file.paths[i].item = PathItem(ItemKeys)
          /\ Len(spec_file.paths) = 1
          /\ spec_endpoints = << Template("GET", spec_file.paths[i].path),
                                 Template("TRACE", spec_file.paths[i].path) >>

\* the operations of a document: a path and a lower-case method key under it
Operations(file) ==
    UNION {{<<file.paths[i].path, k>> : k \in MethodKeys(file.paths[i].item)} :
              i \in DictItems(file)}

\* the (path, method) pairs of the list, the method in lower case
Listed(endpoints) ==
    {<<endpoints[i].path, Lower(endpoints[i].method)>> : i \in 1..Len(endpoints)}

ListedPaths(endpoints) == {endpoints[i].path : i \in 1..Len(endpoints)}

PathsOf(file) == {file.paths[i].path : i \in 1..Len(file.paths)}

EntryOf(file, path) ==
    file.paths[CHOOSE i \in 1..Len(file.paths) : file.paths[i].path = path]

\* a call of remove_endpoints_from_spec returns in this step
Returns == pc = "modify" /\ pc' = "modified"

\* the document the call has written
Written == IF output_path = NoneVal THEN spec_file' ELSE output_file'

Unusable(file) == file.kind # "dict" \/ ~file.has_paths

\* what the claim says of every call: a tuple comes back; a success carries
\* the number of operations of the document that the list names; a failure,
\* and every call on an unusable file, carries 0 and writes no file
C20_Outcome ==
    /\ returned' \in BOOLEAN \X {returned'[2]} \X Nat
    /\ returned'[1] =>
          returned'[3] = Cardinality(Operations(spec_file) \cap Listed(endpoints_to_remove))
    /\ Unusable(spec_file) => ~returned'[1]
    /\ ~returned'[1] => returned'[3] = 0 /\ UNCHANGED <<spec_file, output_file>>

Pulled(log) == ProcessLog(log) /\ pc' = "loop"

\* the key the claim counts an entry under: the upper-cased method and the
\* template path the matcher returns; <<>> for an entry with a missing or
\* empty method or path, or with no matching template
C24_Key(log) ==
    IF log.method \in {Missing, ""} \/ log.path = <<>> THEN <<>>
    ELSE LET p == match_log_to_spec(log.path, spec_endpoints, Upper(log.method))
         IN  IF p = <<>> THEN <<>> ELSE <<Upper(log.method), p>>

\* C24: a pulled entry with a method and a path that the matcher gives the
\* template path p adds exactly 1 to the call_count of the one endpoint keyed
\* (upper-cased method, p), which is in the table, and leaves every other
\* endpoint's stats as they were; any other entry leaves the table as it was;
\* so the call_counts sum up to one more for a matched entry and to the same
\* for any other
C24_PerEntryEffect ==
    [][\A log \in EntryLogs :
          Pulled(log) =>
              /\ Len(endpoint_stats') = Len(endpoint_stats)
              /\ IF C24_Key(log) = <<>>
                 THEN /\ endpoint_stats' = endpoint_stats
                      /\ TotalCalls(endpoint_stats') = TotalCalls(endpoint_stats)
                 ELSE /\ Cardinality({i \in 1..Len(endpoint_stats) :
                                         endpoint_stats[i].key = C24_Key(log)}) = 1
                      /\ \A i \in 1..Len(endpoint_stats) :
                            IF endpoint_stats[i].key = C24_Key(log)
                            THEN endpoint_stats'[i].call_count
                                     = endpoint_stats[i].call_count + 1
                            ELSE endpoint_stats'[i] = endpoint_stats[i]
                      /\ TotalCalls(endpoint_stats') = TotalCalls(endpoint_stats) + 1]_vars

\* of two endpoints one was counted once and the other not at all
C24_Witness ==
    /\ pc = "loop"
    /\ Len(endpoint_stats) = 2
    /\ endpoint_stats[1].call_count = 0
    /\ endpoint_stats[2].call_count = 1

\* a field of a log entry holds a value
Present(x) == x \notin {Missing, NoneVal, ""}

\* the caller identity of an entry per the claim: the first field present of
\* caller, user, client_id; Missing when none is
FirstPresent(log) ==
    IF Present(log.caller) THEN log.caller
    ELSE IF Present(log.user) THEN log.user
    ELSE IF Present(log.client_id) THEN log.client_id
    ELSE Missing

\* the identities the claim adds to a caller set for an entry
Identities(log) == {FirstPresent(log)} \ {Missing}

\* the places of the table an entry is counted at
CountedAt(log) ==
    {i \in 1..Len(endpoint_stats) : endpoint_stats[i].key = C24_Key(log)}

\* C25: a counted entry with a parseable timestamp leaves last_seen at the
\* later of the old last_seen and the entry's instant (a "Z" read as +00:00,
\* so zone-aware); a counted entry with a missing or unparsable timestamp is
\* counted, has its caller recorded and leaves last_seen as it was, absent
\* when it was absent
C25_LastSeenIsMax ==
    [][\A log \in EntryLogs :
          Pulled(log) =>
              \A i \in CountedAt(log) :
                  LET old == endpoint_stats[i]
                      new == endpoint_stats'[i]
                  IN  IF log.timestamp.kind = "iso"
                      THEN /\ new.last_seen.set
                           /\ new.last_seen.t =
                                 IF old.last_seen.set /\ old.last_seen.t >= log.timestamp.t
                                 THEN old.last_seen.t
                                 ELSE log.timestamp.t
                           /\ new.last_seen.aware = (log.timestamp.zone # "")
                      ELSE /\ new.last_seen = old.last_seen
                           /\ new.call_count = old.call_count + 1
                           /\ new.callers = old.callers \cup Identities(log)]_vars

\* an endpoint counted twice, once for an entry of long ago by one caller and
\* once for an entry by another caller that had no timestamp that parses
C25_Witness ==
    /\ pc = "loop"
    /\ \E i \in 1..Len(endpoint_stats) :
          /\ endpoint_stats[i].call_count = 2
          /\ endpoint_stats[i].last_seen = DateTime(TRUE, OldT)
          /\ endpoint_stats[i].callers = {"app01", "app02"}

\* C26: a counted entry adds to the caller set of its endpoint the first
\* present value of caller, user, client_id, and nothing when none is present
\* or the entry is not counted; no caller set changes in any other way
C26_CallerIdentity ==
    [][\A log \in EntryLogs :
          Pulled(log) =>
              \A i \in 1..Len(endpoint_stats) :
                  endpoint_stats'[i].callers =
                      IF i \in CountedAt(log)
                      THEN endpoint_stats[i].callers \cup Identities(log)
                      ELSE endpoint_stats[i].callers]_vars

\* an entry with an empty caller, a user and a client_id has added the user,
\* and an entry with a null caller and a client_id has added the client_id
C26_Witness ==
    /\ pc = "loop"
    /\ \E i \in 1..Len(endpoint_stats) :
          /\ endpoint_stats[i].call_count = 2
          /\ endpoint_stats[i].callers = {"app02", "app03"}

\* every "/" of s written twice
RECURSIVE DoubledSlashes(_)
DoubledSlashes(s) ==
    IF s = <<>> THEN <<>>
    ELSE (IF Head(s) = "/" THEN <<"/", "/">> ELSE <<Head(s)>>) \o DoubledSlashes(Tail(s))

\* concrete paths that differ from s only in surrounding whitespace or in
\* leading, trailing or duplicate slashes
Variants(s) ==
    LET core == Trimmed(s)
    IN  { core,
          DoubledSlashes(core) \o <<"/">>,
          <<" ", "/">> \o core \o <<" ">> }

\* C27, as claimed: every concrete path that differs from the one matched only
\* in surrounding whitespace or in leading, trailing or duplicate slashes gets
\* the same result, and an empty or whitespace-only path gets no match
C27_SameForAllVariants ==
    pc = "matched" =>
        /\ \A q \in Variants(call.log_path) :
              match_log_to_spec(q, spec_endpoints, call.method) = call.result
        /\ Trimmed(call.log_path) = <<>> => call.result = <<>>

\* C27, amended: the same, for a concrete path that is not empty after
\* trimming; an empty or whitespace-only path gets no match, while a path of
\* slashes alone is matched against the templates without segments
C27_SameForNonEmptyVariants ==
    pc = "matched" =>
        /\ Trimmed(call.log_path) # <<>> =>
              \A q \in Variants(call.log_path) :
                 match_log_to_spec(q, spec_endpoints, call.method) = call.result
        /\ Trimmed(call.log_path) = <<>> =>
              /\ call.result = <<>>
              /\ match_log_to_spec(<<" ">> \o call.log_path, spec_endpoints,
                                   call.method) = <<>>

\* a path with a doubled slash was matched to a template with slashes to
\* spare, and so is the same path in spaces with a trailing slash
C27_Witness ==
    /\ pc = "matched"
    /\ call.log_path = <<"/", "/", "a">>
    /\ call.method = "POST"
    /\ call.result = <<"/", "/", "a", "/">>
    /\ match_log_to_spec(<<" ", "/", "a", "/", " ">>, spec_endpoints, call.method)
           = <<"/", "/", "a", "/">>

\* the score of an endpoint before the clamp
Unclamped(st) == Confidence(st, current_time).score

\* C29: for every endpoint with call_count > 0 the score before the clamp is
\* never below 0, so the clamp changes a score only when it is above 100; the
\* score 0 is reached only with more than 100 calls, a last_seen at most 30
\* days before the reference time, and more than 10 distinct callers
C29_NoLowerClamp ==
    pc = "done" =>
        \A i \in 1..Len(endpoint_stats) :
            LET st == endpoint_stats[i]
                r == ResultOf(st)
            IN  st.call_count > 0 =>
                   /\ Unclamped(st) >= 0
                   /\ r.confidence_score # Unclamped(st) =>
                          (Unclamped(st) > 100 /\ r.confidence_score = 100)
                   /\ r.confidence_score = 0 =>
                          /\ r.call_count > 100
                          /\ r.last_seen.kind = "iso"
                          /\ ResultDays(r) <= 30
                          /\ r.unique_callers > 10

\* an endpoint called more than 100 times, last seen within 30 days, by more
\* than ten callers: 50 - 30 - 10 - 10
C29_Witness ==
    /\ pc = "done"
    /\ \E i \in 1..Len(results) :
          /\ results[i].call_count > 100
          /\ results[i].last_seen.kind = "iso"
          /\ ResultDays(results[i]) \in 0..30
          /\ results[i].unique_callers > 10
          /\ results[i].confidence_score = 0

\* the loop body for entry a and then for entry b, from the table as it is
After2(a, b) ==
    LET first == Round(endpoint_stats, spec_endpoints, a)
    IN  IF first.raised THEN first ELSE Round(first.stats, spec_endpoints, b)

\* what the call gives back when the log ends after a round: the result list,
\* or an exception
Returned(round) ==
    IF round.raised \/ ScoringRaises(round.stats, current_time)
    THEN [raised |-> TRUE, results |-> <<>>]
    ELSE [raised |-> FALSE, results |-> Results(round.stats, current_time)]

\* C30: for a fixed template list and reference time the call returns the same
\* result list for every order of the same log entries: after any entries
\* already counted, two entries in either order give the same results
C30_OrderIndependent ==
    pc = "loop" =>
        \A a, b \in EntryLogs : Returned(After2(a, b)) = Returned(After2(b, a))

\* the values of the non-blank lines that parse as JSON, in file order
RECURSIVE ParsedEntries(_)
ParsedEntries(lines) ==
    IF lines = <<>> THEN <<>>
    ELSE (IF Head(lines).kind = "json" THEN <<Head(lines).value>> ELSE <<>>)
             \o ParsedEntries(Tail(lines))

\* C21: stream_logs yields, in file order, exactly the entries of the
\* non-blank lines that parse as JSON: a line that does not parse is skipped
\* and the lines after it are still yielded; a file that does not exist
\* yields nothing; load_logs returns the same sequence and count_log_entries
\* its length
C21_YieldsParsedLines ==
    pc = "ended" =>
        /\ yielded = (IF log_file.exists THEN ParsedEntries(log_file.lines) ELSE <<>>)
        /\ load_logs(log_file) = yielded
        /\ count_log_entries(log_file) = Len(yielded)

\* the ways to pair n futures with n places of the results list
Pairings(n) == {f \in [1..n -> 1..n] : \A i, j \in 1..n : f[i] = f[j] => i = j}

\* C22: for every interleaving of the workers and every max_workers >= 1 the
\* scan returns exactly one result per configured service, each equal to what
\* scan_service returns for that service run alone; a service that fails is
\* reported with status "error" and the others are as they would be without it
C22_IsolatedScans ==
    pc = "returned" =>
        /\ Len(scan_results) = Len(services)
        /\ \E f \in Pairings(Len(services)) :
              \A i \in 1..Len(services) : scan_results[f[i]] = scan_service(services[i])

\* two workers; the second service failed and was collected first, the first
\* counted both of its entries
C22_Witness ==
    /\ pc = "returned"
    /\ max_workers = 2
    /\ Len(services) = 2
    /\ services[1].name = "users"
    /\ services[2].name = "nullmethod"
    /\ scan_results[1].status = "error"
    /\ scan_results[1].service = "nullmethod"
    /\ scan_results[2].status = "success"
    /\ scan_results[2].endpoints_total = 1
    /\ scan_results[2].endpoints_unused = 0
    /\ scan_results[2].results[1].call_count = 2

\* a run that is no dry run, has an endpoint to remove, starts in a clean
\* repository, and whose collaborators all succeed
AllSucceed ==
    /\ ~prune_env.dry_run
    /\ prune_env.candidates > 0
    /\ git.repo /\ ~git.other_changes
    /\ prune_env.modify_ok
    /\ prune_env.fault = "none"
    /\ prune_env.push_ok /\ prune_env.repo_info /\ prune_env.pr_ok

\* C23: a prune that is no dry run, in a clean repository, with an endpoint at
\* or above the threshold and with every collaborator succeeding, goes in
\* order through removing the endpoints, creating the branch and committing,
\* pushing, and creating the pull request, and ends with the pull request
\* created
C23_ReachesPullRequest ==
    (pc = "select" /\ AllSucceed) ~>
        (/\ pc = "done"
         /\ git.pr
         /\ console = <<"Removing endpoints from spec", "Creating git branch",
                        "Created branch and committed changes", "Pushing to GitHub",
                        "Pushed branch", "Creating pull request", "Pull request created">>)

\* the run ended because branch creation, commit or push failed
GitStepFailed ==
    \/ branch_result # <<>> /\ ~branch_result[1]
    \/ \E i \in 1..Len(console) : console[i] = "Push failed"

\* C28: the git status is checked before any file is modified, so with
\* --dry-run, outside a repository, or with uncommitted changes the spec file
\* is never written; and when prune aborts after modifying the spec because
\* branch creation, commit or push failed, the spec in the working tree is
\* back to its content before the run
C28_SpecRestored ==
    /\ (prune_env.dry_run \/ ~git.repo \/ git.other_changes) => ~git.written
    /\ (pc = "aborted" /\ git.written /\ GitStepFailed) => git.work = "original"

====
